---- MODULE Spec2Model ----
(***************************************************************************)
(* A model of the credential handling of crowdit-mcp-server:              *)
(*   - the API-key gate          (src/app/core/auth.py)                    *)
(*   - the OAuth2 token managers (src/email_tools.py,                      *)
(*                                src/microsoft365_tools.py, src/server.py)*)
(*   - the AWS session cache and aws_run_command (src/aws_tools.py)        *)
(*   - the vendor request wrappers and their tools, pagination            *)
(*                               (src/digitalocean_tools.py and others)    *)
(*   - the secret resolver and the credential holders                     *)
(*                               (src/app/core/config.py and others)       *)
(* Python strings are TLA+ strings; an Optional[str] is a record           *)
(* [some, v], so that None and "" stay different values.                   *)
(***************************************************************************)
EXTENDS Integers, Sequences, FiniteSets, TLC

VARIABLES
    \* ---- APIKeyMiddleware (src/app/core/auth.py)
    ctor_api_key,    \* the api_key argument of __init__
    env_MCP_API_KEY, \* os.getenv("MCP_API_KEY") at construction
    _api_key,        \* self._api_key
    _key_loaded,      \* self._key_loaded
    secret_calls,    \* number of get_secret_sync("MCP_API_KEY") calls made
    secret_results,  \* what those calls returned, in order
    \* ---- a token-based credential manager (email_tools.py, microsoft365_tools.py, server.py)
    now,             \* datetime.now(), in seconds
    ticks,           \* number of clock steps taken
    manager,         \* which class this manager is
    _access_token,   \* self._access_token: 0 is None, n > 0 the n-th token issued
    _token_expiry,   \* self._token_expiry / self._token_expires: -1 is None
    _refresh_token,  \* self._refresh_token (Microsoft365Config): 0 the configured one
    stored_refresh,  \* the secret M365_REFRESH_TOKEN in the external secret store
    store_writes,    \* number of update_secret_sync("M365_REFRESH_TOKEN", ...) calls
    pc,              \* per caller of get_access_token: "idle" or "awaiting"
    sent_refresh,    \* per caller: the refresh token its pending request carries
    token_requests,  \* number of token-endpoint requests sent
    tokens_issued,   \* number of access tokens the token endpoint has issued
    refresh_issued,  \* number of refresh tokens the token endpoint has issued
    calls,           \* number of get_access_token calls started
    inflight,        \* per caller: the token response on its way to it
    \* ---- AWSConfig (src/aws_tools.py)
    access_key_id,     \* self.access_key_id
    secret_access_key, \* self.secret_access_key
    role_arn_nonprod, \* self.role_arn_nonprod
    role_arn_admin,   \* self.role_arn_admin
    _session_cache,   \* self._session_cache: account -> [session, expiry]
    assume_calls,     \* number of sts.assume_role calls made
    session_calls,    \* number of get_session calls made
    \* ---- a vendor request wrapper and the tool that calls it
    \*      (digitalocean_tools.py, email_tools.py, microsoft365_tools.py,
    \*       linear_tools.py, server.py)
    wrapper,          \* which request wrapper the tool calls
    is_configured,    \* the vendor's is_configured; for the clients of server.py,
                      \* which have no such property: their credentials are set
    rq_pc,            \* "idle", "awaiting" a response, "sleeping", "done"
    attempt,          \* do_request: the loop variable
    http_requests,    \* API requests sent by the current tool call
    token_fetches,    \* token-endpoint requests sent by the current tool call
    sleeps,           \* the asyncio.sleep durations of the current tool call
    responses,        \* the responses the current tool call has received
    result,           \* what the wrapper returned or raised
    tool_result,      \* what the tool returned or raised
    \* ---- the external secret store (src/app/core/config.py)
    secret_store,     \* secret id -> the payload of its latest version
    \* ---- a credential holder (digitalocean_tools.py, linear_tools.py,
    \*      email_tools.py, aws_tools.py, app/core/auth.py)
    holder,           \* which credential this is
    constructed,      \* __init__ has run
    cred_env,         \* the credential's environment variable (None: unset)
    cred_store,       \* the credential's value in the secret store (None: no such secret)
    _cred,            \* the cached attribute: self._token, self._api_key, ...
    _cred_loaded,     \* self._key_loaded of the middleware
    env_reads,        \* os.getenv calls made for the credential
    store_reads,      \* get_secret_sync calls made for the credential
    accesses,         \* reads of the credential made so far
    \* ---- DigitalOceanConfig.do_paginated_request (digitalocean_tools.py)
    listing,          \* what the API serves: one response per page
    page_pc,          \* "idle", "awaiting" the response of a page, "done"
    page,             \* the loop variable
    all_results,      \* the items collected so far
    page_requests,    \* the page numbers requested, in order
    page_result,      \* what do_paginated_request returned
    ev               \* the step just taken: the operation, its inputs and result

auth_vars == <<ctor_api_key, env_MCP_API_KEY, _api_key, _key_loaded,
               secret_calls, secret_results>>

clock_vars == <<now, ticks>>

token_vars == <<manager, _access_token, _token_expiry, _refresh_token,
                stored_refresh, store_writes, pc, sent_refresh, token_requests,
                tokens_issued, refresh_issued, calls, inflight>>

aws_vars == <<access_key_id, secret_access_key, role_arn_nonprod, role_arn_admin, _session_cache, assume_calls,
              session_calls>>

vendor_vars == <<wrapper, is_configured, rq_pc, attempt, http_requests,
                 token_fetches, sleeps, responses, result, tool_result>>

secret_vars == <<secret_store>>

cred_vars == <<holder, constructed, cred_env, cred_store, _cred, _cred_loaded,
               env_reads, store_reads, accesses>>

page_vars == <<listing, page_pc, page, all_results, page_requests, page_result>>

vars == <<auth_vars, clock_vars, token_vars, aws_vars, vendor_vars, secret_vars,
          cred_vars, page_vars, ev>>

-----------------------------------------------------------------------------
(* Python values *)

None == [some |-> FALSE, v |-> ""]

Some(s) == [some |-> TRUE, v |-> s]

\* bool(x) of an Optional[str]: None and "" are falsy
Truthy(o) == o.some /\ o.v # ""

\* Python's `a or b`
Or(a, b) == IF Truthy(a) THEN a ELSE b

\* str.startswith
StartsWith(s, p) == Len(s) >= Len(p) /\ SubSeq(s, 1, Len(p)) = p

\* str.replace(old, new): every non-overlapping occurrence, left to right
RECURSIVE Replace(_, _, _)
Replace(s, old, new) ==
    IF Len(s) < Len(old) \/ Len(old) = 0 THEN s
    ELSE IF StartsWith(s, old)
         THEN new \o Replace(SubSeq(s, Len(old) + 1, Len(s)), old, new)
         ELSE SubSeq(s, 1, 1) \o Replace(SubSeq(s, 2, Len(s)), old, new)

UpperCase == "ABCDEFGHIJKLMNOPQRSTUVWXYZ"

LowerCase == "abcdefghijklmnopqrstuvwxyz"

\* str.lower of one character
LowerChar(ch) ==
    IF \E i \in 1 .. Len(UpperCase) : SubSeq(UpperCase, i, i) = ch
    THEN LET i == CHOOSE j \in 1 .. Len(UpperCase) : SubSeq(UpperCase, j, j) = ch
         IN  SubSeq(LowerCase, i, i)
    ELSE ch

\* str.upper of one character
UpperChar(ch) ==
    IF \E i \in 1 .. Len(LowerCase) : SubSeq(LowerCase, i, i) = ch
    THEN LET i == CHOOSE j \in 1 .. Len(LowerCase) : SubSeq(LowerCase, j, j) = ch
         IN  SubSeq(UpperCase, i, i)
    ELSE ch

\* str.upper
RECURSIVE Upper(_)
Upper(s) ==
    IF Len(s) = 0 THEN s
    ELSE UpperChar(SubSeq(s, 1, 1)) \o Upper(SubSeq(s, 2, Len(s)))

\* str.lower
RECURSIVE Lower(_)
Lower(s) ==
    IF Len(s) = 0 THEN s
    ELSE LowerChar(SubSeq(s, 1, 1)) \o Lower(SubSeq(s, 2, Len(s)))

IsSpace(ch) == ch \in {" ", "\t", "\n", "\r"}

\* str.lstrip
RECURSIVE LStrip(_)
LStrip(s) ==
    IF Len(s) > 0 /\ IsSpace(SubSeq(s, 1, 1)) THEN LStrip(SubSeq(s, 2, Len(s))) ELSE s

\* str.rstrip
RECURSIVE RStrip(_)
RStrip(s) ==
    IF Len(s) > 0 /\ IsSpace(SubSeq(s, Len(s), Len(s)))
    THEN RStrip(SubSeq(s, 1, Len(s) - 1)) ELSE s

\* str.strip
Strip(s) == RStrip(LStrip(s))

-----------------------------------------------------------------------------
(* APIKeyMiddleware *)

\* the SharePoint callback left out of the allow-list
PUBLIC_PATHS_short == {"/health", "/status", "/callback", "/"}

PUBLIC_PATHS == {"/health", "/status", "/callback", "/sharepoint-callback", "/"}

\* the request paths tried: the public ones, near misses of them, an MCP path
Paths == {"/health", "/status", "/callback", "/sharepoint-callback", "/",
          "/mcp", "/health/"}

Keys == {"ab", "cd"}

\* a value of the api_key query parameter (None: the parameter is absent)
QueryInputs == {None, Some("")} \cup {Some(k) : k \in Keys}

\* a value of the X-API-Key header (None: the header is absent)
HeaderInputs == {None} \cup {Some(k) : k \in Keys}

\* a value of the Authorization header (None: the header is absent)
AuthInputs == {None, Some("Bearer ab"), Some("Bearer cd"),
               Some("Bearer Bearer ab"), Some("aBearer b")}

\* what get_secret_sync("MCP_API_KEY") can return
SecretOutcomes == {None, Some(""), Some("ab")}

\* __init__: self._api_key = api_key or os.getenv("MCP_API_KEY")
InitApiKey(ctor, env) == Or(ctor, env)

\* __init__: self._key_loaded = self._api_key is not None
InitKeyLoaded(key) == key.some

\* headers.get("Authorization", "")
AuthorizationOrDefault(auth) == IF auth.some THEN auth.v ELSE ""

\* dispatch: provided_key = query api_key or X-API-Key or Authorization.replace("Bearer ", "")
ProvidedKey(q, x, auth) ==
    Or(Or(q, x), Some(Replace(AuthorizationOrDefault(auth), "Bearer ", "")))

\* ProvidedKey, tabulated over the requests tried
Provided ==
    [q \in QueryInputs, x \in HeaderInputs, auth \in AuthInputs |-> ProvidedKey(q, x, auth)]

\* the comparison inverted
KeyMatches_inverted(provided, key) == provided # key

\* dispatch: the request is let through when not (provided_key != self.api_key)
KeyMatches(provided, key) == provided = key

\* the api_key property, when self._key_loaded is false: the key becomes what
\* get_secret_sync("MCP_API_KEY") returned, and the flag is set whatever it was
LoadApiKey(fetched) ==
    /\ _api_key' = fetched
    /\ _key_loaded' = TRUE
    /\ secret_calls' = secret_calls + 1
    /\ secret_results' = Append(secret_results, fetched)

\* the open-mode test left out
OpenMode_never(key) == FALSE

\* dispatch: `if not self.api_key`, the open mode
OpenMode(key) == ~Truthy(key)

AuthInit ==
    /\ ctor_api_key \in {None, Some(""), Some("ab")}
    /\ env_MCP_API_KEY \in {None, Some(""), Some("cd")}
    /\ _api_key = InitApiKey(ctor_api_key, env_MCP_API_KEY)
    /\ _key_loaded = InitKeyLoaded(_api_key)
    /\ secret_calls = 0
    /\ secret_results = <<>>

\* the response of dispatch() once self.api_key has the value key
Respond(path, q, x, auth, key, was_loaded) ==
    LET provided == Provided[q, x, auth]
        pass == OpenMode(key) \/ KeyMatches(provided, key)
    IN  ev' = [op |-> "dispatch", path |-> path, q |-> q, x |-> x, auth |-> auth,
               provided |-> IF OpenMode(key) THEN None ELSE provided,
               status |-> IF pass THEN 200 ELSE 401,
               forwarded |-> pass, was_loaded |-> was_loaded]

\* dispatch() on a path of PUBLIC_PATHS: call_next at once, self.api_key is not read
DispatchPublic(path, q, x, auth) ==
    /\ path \in PUBLIC_PATHS
    /\ UNCHANGED <<vendor_vars, secret_vars, auth_vars, cred_vars, page_vars, clock_vars, token_vars, aws_vars>>
    /\ ev' = [op |-> "dispatch", path |-> path, q |-> q, x |-> x, auth |-> auth,
              provided |-> None, status |-> 200, forwarded |-> TRUE,
              was_loaded |-> _key_loaded]

\* dispatch() on any other path, the key already loaded
DispatchLoaded(path, q, x, auth) ==
    /\ path \notin PUBLIC_PATHS
    /\ _key_loaded
    /\ UNCHANGED <<vendor_vars, secret_vars, auth_vars, cred_vars, page_vars, clock_vars, token_vars, aws_vars>>
    /\ Respond(path, q, x, auth, _api_key, TRUE)

\* dispatch() on any other path, the key not yet loaded: the first read of
\* self.api_key calls get_secret_sync
DispatchLoading(path, q, x, auth) ==
    /\ path \notin PUBLIC_PATHS
    /\ ~_key_loaded
    /\ \E fetched \in SecretOutcomes :
        /\ LoadApiKey(fetched)
        /\ Respond(path, q, x, auth, fetched, FALSE)
    /\ UNCHANGED <<ctor_api_key, env_MCP_API_KEY>>
    /\ UNCHANGED <<vendor_vars, secret_vars, clock_vars, cred_vars, page_vars, token_vars, aws_vars>>

Dispatch ==
    \E path \in Paths, q \in QueryInputs, x \in HeaderInputs, auth \in AuthInputs :
        \/ DispatchPublic(path, q, x, auth)
        \/ DispatchLoaded(path, q, x, auth)
        \/ DispatchLoading(path, q, x, auth)

\* no middleware in the picture
AuthIdle ==
    /\ ctor_api_key = None
    /\ env_MCP_API_KEY = None
    /\ _api_key = None
    /\ _key_loaded = FALSE
    /\ secret_calls = 0
    /\ secret_results = <<>>

-----------------------------------------------------------------------------
(* Bounds *)

\* get_access_token calls started in one run
MaxCalls == 3

\* coroutines calling get_access_token on the one manager
NumCallers == 2

\* clock steps taken in one run
MaxTicks == 3

\* get_session calls made in one run
MaxSessionCalls == 3

-----------------------------------------------------------------------------
(* Token-based credential managers *)

Managers == {"EmailConfig", "Microsoft365Config", "HaloPSAClient", "XeroClient",
             "Pax8Client", "SalesforceClient", "IngramMicroClient"}

\* expiry = now + timedelta(seconds=data.get("expires_in", 3600) - 60)
DefaultTtlManagers == {"EmailConfig", "Microsoft365Config"}

\* expiry = now + timedelta(seconds=data["expires_in"] - 60)
DeclaredTtlManagers == {"HaloPSAClient", "XeroClient", "IngramMicroClient"}

\* expiry = now + timedelta(hours=1)
FixedTtlManagers == {"Pax8Client", "SalesforceClient"}

Callers == 1 .. NumCallers

\* the 60 of `expires_in - 60`
MARGIN == 60

\* the 3600 of data.get("expires_in", 3600)
DEFAULT_EXPIRES_IN == 3600

\* timedelta(hours=1), in seconds
ONE_HOUR == 3600

\* expires_in as a token response declares it; -1: the response has no expires_in
ExpiresInValues == {-1, 120}

\* how far the clock moves between two steps
ClockSteps == {60, 3480}

\* the refresh_token of a token response: "none" (the key is missing), "same"
\* (the one the request carried) or "new" (a rotated one)
RefreshValues(m) == IF m = "Microsoft365Config" THEN {"none", "same", "new"} ELSE {"none"}

\* the comparison with the expiry turned round
CacheValid_reversed(token, expiry, t) == token # 0 /\ expiry # -1 /\ expiry < t

\* the expiry not looked at
CacheValid_noexpiry(token, expiry, t) == token # 0

\* `self._access_token and self._token_expiry and datetime.now() < self._token_expiry`
CacheValid(token, expiry, t) == token # 0 /\ expiry # -1 /\ t < expiry

\* the margin not subtracted
ComputeExpiry_nomargin(m, expires_in, t) ==
    IF m \in {"EmailConfig", "Microsoft365Config"}
    THEN t + (IF expires_in = -1 THEN 3600 ELSE expires_in)
    ELSE IF m \in {"HaloPSAClient", "XeroClient", "IngramMicroClient"}
    THEN (IF expires_in = -1 THEN -2 ELSE t + expires_in)
    ELSE t + 3600

\* the expiry a manager computes from a response received at time t; -2 stands
\* for the KeyError of data["expires_in"]
ComputeExpiry(m, expires_in, t) ==
    IF m \in DefaultTtlManagers
    THEN t + ((IF expires_in = -1 THEN DEFAULT_EXPIRES_IN ELSE expires_in) - MARGIN)
    ELSE IF m \in DeclaredTtlManagers
    THEN (IF expires_in = -1 THEN -2 ELSE t + (expires_in - MARGIN))
    ELSE t + ONE_HOUR

\* the refresh token of the response taken without comparing it
RefreshRotated_always(in_data, new_refresh, cached) == in_data

\* Microsoft365Config: `"refresh_token" in data and new_refresh != self._refresh_token`
RefreshRotated(in_data, new_refresh, cached) == in_data /\ new_refresh # cached

\* the refresh token a request carries: XeroClient reads XERO_REFRESH_TOKEN
\* from the environment on every call, Microsoft365Config sends the cached one
RefreshTokenSent(m, cached) == IF m = "XeroClient" THEN 0 ELSE cached

TokenInit ==
    /\ manager \in Managers
    /\ _access_token = 0
    /\ _token_expiry = -1
    /\ _refresh_token = 0
    /\ stored_refresh = 0
    /\ store_writes = 0
    /\ pc = [c \in Callers |-> "idle"]
    /\ sent_refresh = [c \in Callers |-> 0]
    /\ token_requests = 0
    /\ tokens_issued = 0
    /\ refresh_issued = 0
    /\ calls = 0
    /\ inflight = <<>>

\* no token manager in the picture
TokenIdle ==
    /\ manager = "none"
    /\ _access_token = 0
    /\ _token_expiry = -1
    /\ _refresh_token = 0
    /\ stored_refresh = 0
    /\ store_writes = 0
    /\ pc = <<>>
    /\ sent_refresh = <<>>
    /\ token_requests = 0
    /\ tokens_issued = 0
    /\ refresh_issued = 0
    /\ calls = 0
    /\ inflight = <<>>

\* time passes by d seconds
Advance(d) ==
    /\ ticks < MaxTicks
    /\ ticks' = ticks + 1
    /\ now' = now + d
    /\ UNCHANGED <<vendor_vars, secret_vars, auth_vars, cred_vars, page_vars, token_vars, aws_vars>>
    /\ ev' = [op |-> "tick"]

Tick == \E d \in ClockSteps : Advance(d)

\* get_access_token with a valid cache: the early return, no await
GetCached(c) ==
    /\ pc[c] = "idle"
    /\ calls < MaxCalls
    /\ CacheValid(_access_token, _token_expiry, now)
    /\ calls' = calls + 1
    /\ UNCHANGED <<manager, _access_token, _token_expiry, _refresh_token,
                   stored_refresh, store_writes, pc, sent_refresh,
                   token_requests, tokens_issued, refresh_issued, inflight>>
    /\ UNCHANGED <<vendor_vars, secret_vars, auth_vars, cred_vars, page_vars, clock_vars, aws_vars>>
    /\ ev' = [op |-> "return", caller |-> c, ret |-> _access_token,
              requests |-> 0, pre_requests |-> token_requests,
              pre_token |-> _access_token, pre_expiry |-> _token_expiry]

\* get_access_token with no valid cache: the token-endpoint request is sent and
\* the coroutine suspends in `await client.post(...)`
SendTokenRequest(c) ==
    /\ pc[c] = "idle"
    /\ calls < MaxCalls
    /\ ~CacheValid(_access_token, _token_expiry, now)
    /\ calls' = calls + 1
    /\ pc' = [pc EXCEPT ![c] = "awaiting"]
    /\ sent_refresh' = [sent_refresh EXCEPT ![c] = RefreshTokenSent(manager, _refresh_token)]
    /\ token_requests' = token_requests + 1
    /\ UNCHANGED <<manager, _access_token, _token_expiry, _refresh_token,
                   stored_refresh, store_writes, tokens_issued, refresh_issued,
                   inflight>>
    /\ UNCHANGED <<vendor_vars, secret_vars, auth_vars, cred_vars, page_vars, clock_vars, aws_vars>>
    /\ ev' = [op |-> "send", caller |-> c, pre_requests |-> token_requests,
              pre_token |-> _access_token, pre_expiry |-> _token_expiry]

\* the cache thrown away when the request fails
TokenRequestFails_clears(c) ==
    /\ pc[c] = "awaiting"
    /\ pc' = [pc EXCEPT ![c] = "idle"]
    /\ _access_token' = 0
    /\ _token_expiry' = -1
    /\ UNCHANGED <<manager, _refresh_token,
                   stored_refresh, store_writes, sent_refresh, token_requests,
                   tokens_issued, refresh_issued, calls, inflight>>
    /\ UNCHANGED <<vendor_vars, secret_vars, auth_vars, cred_vars, page_vars, clock_vars, aws_vars>>
    /\ ev' = [op |-> "raise", caller |-> c, requests |-> 1, why |-> "http"]

\* the request fails (transport error, or raise_for_status on an error status):
\* the exception leaves get_access_token before anything is assigned
TokenRequestFails(c) ==
    /\ pc[c] = "awaiting"
    /\ pc' = [pc EXCEPT ![c] = "idle"]
    /\ UNCHANGED <<manager, _access_token, _token_expiry, _refresh_token,
                   stored_refresh, store_writes, sent_refresh, token_requests,
                   tokens_issued, refresh_issued, calls, inflight>>
    /\ UNCHANGED <<vendor_vars, secret_vars, auth_vars, cred_vars, page_vars, clock_vars, aws_vars>>
    /\ ev' = [op |-> "raise", caller |-> c, requests |-> 1, why |-> "http"]

\* the token endpoint answers 200: the lines after data = response.json(), which
\* run without an await. update_secret_sync returns False when the write fails.
TokenResponse(c) ==
    /\ pc[c] = "awaiting"
    /\ \E expires_in \in ExpiresInValues, rt \in RefreshValues(manager) :
        LET token == tokens_issued + 1
            new_refresh == IF rt = "new" THEN refresh_issued + 1 ELSE sent_refresh[c]
            rotated == /\ manager = "Microsoft365Config"
                       /\ RefreshRotated(rt # "none", new_refresh, _refresh_token)
            expiry == ComputeExpiry(manager, expires_in, now)
        IN  \E saved \in (IF rotated THEN BOOLEAN ELSE {FALSE}) :
            /\ tokens_issued' = token
            /\ refresh_issued' = IF rt = "new" THEN refresh_issued + 1 ELSE refresh_issued
            /\ _access_token' = token
            /\ _refresh_token' = IF rotated THEN new_refresh ELSE _refresh_token
            /\ store_writes' = IF rotated THEN store_writes + 1 ELSE store_writes
            /\ stored_refresh' = IF saved THEN new_refresh ELSE stored_refresh
            /\ _token_expiry' = IF expiry = -2 THEN _token_expiry ELSE expiry
            /\ ev' = [op |-> IF expiry = -2 THEN "raise" ELSE "return",
                      caller |-> c, ret |-> token, requests |-> 1,
                      why |-> IF expiry = -2 THEN "KeyError" ELSE "",
                      expires_in |-> expires_in,
                      refresh_in_data |-> rt # "none", new_refresh |-> new_refresh,
                      written |-> IF rotated THEN new_refresh ELSE -1,
                      pre_refresh |-> _refresh_token, pre_writes |-> store_writes,
                      pre_requests |-> token_requests,
                      pre_token |-> _access_token, pre_expiry |-> _token_expiry]
    /\ pc' = [pc EXCEPT ![c] = "idle"]
    /\ UNCHANGED <<manager, sent_refresh, token_requests, calls, inflight>>
    /\ UNCHANGED <<vendor_vars, secret_vars, auth_vars, cred_vars, page_vars, clock_vars, aws_vars>>

NextToken ==
    \/ Tick
    \/ \E c \in Callers : GetCached(c)
    \/ \E c \in Callers : SendTokenRequest(c)
    \/ \E c \in Callers : TokenRequestFails(c)
    \/ \E c \in Callers : TokenResponse(c)

\* the clock at start
ClockInit == now = 0 /\ ticks = 0

-----------------------------------------------------------------------------
(* AWSConfig *)

ACCOUNT_MAP == {"prod", "nonprod", "admin"}

\* timedelta(minutes=5), in seconds
REFRESH_MARGIN == 300

\* DurationSeconds of sts.assume_role
DURATION_SECONDS == 3600

\* _get_base_session: the session built from the static keys; the sessions
\* built from assumed-role credentials are numbered from 1
BaseSession == 0

\* the account argument of get_session
AccountInputs == {None, Some(""), Some("prod"), Some("nonprod"), Some("admin"),
                  Some(" NonProd "), Some("dev")}

\* what a role ARN variable can hold in the environment and in the secret store
ArnEnvValues == {"", "arn:env"}

ArnSecretValues == {None, Some("arn:sm")}

\* what AWS_ACCESS_KEY_ID and AWS_SECRET_ACCESS_KEY can hold in the environment
\* and in the secret store
KeyEnvValues == {"", "key"}

KeySecretValues == {None, Some("key")}

\* what the AWS API call of a tool does once the tool has its client: it
\* returns, or it raises one of these
ApiOutcomes == {"ok", "ClientError"}

AwsClockSteps == {300, 3000}

\* _load_credentials: os.getenv(X, "") or get_secret_sync(X) or ""
LoadCredential(env, secret) ==
    IF env # "" THEN env ELSE IF Truthy(secret) THEN secret.v ELSE ""

\* the default "prod" not applied to a None or empty argument
NormalizeAccount_nodefault(arg) == Strip(Lower(IF arg.some THEN arg.v ELSE ""))

\* get_session: account = (account or "prod").lower().strip()
NormalizeAccount(arg) == Strip(Lower(Or(arg, Some("prod")).v))

\* NormalizeAccount, tabulated over the arguments tried
Normalized == [arg \in AccountInputs |-> NormalizeAccount(arg)]

\* the two role ARNs taken for one another
GetRoleArn_swapped(account) ==
    IF account = "nonprod" THEN Some(role_arn_admin)
    ELSE IF account = "admin" THEN Some(role_arn_nonprod)
    ELSE None

\* _get_role_arn
GetRoleArn(account) ==
    IF account = "nonprod" THEN Some(role_arn_nonprod)
    ELSE IF account = "admin" THEN Some(role_arn_admin)
    ELSE None

\* the five minutes not subtracted
SessionFresh_nomargin(expiry, t) == t < expiry

\* get_session: `datetime.now(timezone.utc) < expiry - timedelta(minutes=5)`
SessionFresh(expiry, t) == t < expiry - REFRESH_MARGIN

\* get_session: `cached` is set and still fresh
CacheHit(cache, account, t) ==
    account \in DOMAIN cache /\ SessionFresh(cache[account].expiry, t)

\* the cache replaced by the one new entry
CachePut_only(cache, account, session, expiration) ==
    [a \in {account} |-> [session |-> session, expiry |-> expiration]]

\* self._session_cache[account] = {"session": session, "expiry": creds["Expiration"]}
CachePut(cache, account, session, expiration) ==
    [a \in DOMAIN cache \cup {account} |->
        IF a = account THEN [session |-> session, expiry |-> expiration]
        ELSE cache[a]]

\* is_configured
AwsIsConfigured == access_key_id # "" /\ secret_access_key # ""

\* an exception: its class, the error code of a ClientError, str(e)
Exc(type, code, msg) == [type |-> type, code |-> code, msg |-> msg]

\* get_session: the ValueError of line 115
UnknownAccountError(account) ==
    Exc("ValueError", "",
        "Unknown account '" \o account \o "'. Use: prod, nonprod, admin")

\* get_session: the ValueError of line 134
NoRoleArnError(account) ==
    Exc("ValueError", "",
        "No role ARN configured for account '" \o account
            \o "'. Set AWS_ROLE_ARN_" \o Upper(account) \o " environment variable.")

\* what sts.assume_role and the AWS API calls of the tools raise when they fail
AwsClientError == Exc("ClientError", "AccessDenied", "not authorized")

\* handle_aws_error; botocore: whether botocore.exceptions can be imported
handle_aws_error(e, botocore) ==
    IF botocore /\ e.type = "NoCredentialsError"
    THEN "Error: AWS credentials not configured. Set AWS_ACCESS_KEY_ID and AWS_SECRET_ACCESS_KEY."
    ELSE IF botocore /\ e.type = "ClientError"
    THEN "Error: AWS API error (" \o e.code \o "): " \o e.msg
    ELSE IF botocore /\ e.type = "ParamValidationError"
    THEN "Error: Invalid parameters: " \o e.msg
    ELSE IF e.type = "ValueError"
    THEN "Error: " \o e.msg
    ELSE "Error: " \o e.type \o ": " \o e.msg

\* the string an AWS tool returns when its call raised nothing
AWS_TOOL_RESULT == "# result"

\* the string an AWS tool returns for is_configured false
AWS_NOT_CONFIGURED ==
    "Error: AWS not configured. Set AWS_ACCESS_KEY_ID and AWS_SECRET_ACCESS_KEY."

\* an AWS tool after get_client returned: its AWS API call returns or raises,
\* and `except Exception` turns what it raises into a string
AwsToolAfterClient(api) ==
    IF api = "ok" THEN AWS_TOOL_RESULT ELSE handle_aws_error(AwsClientError, TRUE)

AwsInit ==
    /\ \E e \in KeyEnvValues, sm \in KeySecretValues :
           access_key_id = LoadCredential(e, sm)
    /\ \E e \in KeyEnvValues, sm \in KeySecretValues :
           secret_access_key = LoadCredential(e, sm)
    /\ \E e \in ArnEnvValues, sm \in ArnSecretValues :
           role_arn_nonprod = LoadCredential(e, sm)
    /\ \E e \in ArnEnvValues, sm \in ArnSecretValues :
           role_arn_admin = LoadCredential(e, sm)
    /\ _session_cache = <<>>
    /\ assume_calls = 0
    /\ session_calls = 0

\* no AWSConfig in the picture
AwsIdle ==
    /\ access_key_id = ""
    /\ secret_access_key = ""
    /\ role_arn_nonprod = ""
    /\ role_arn_admin = ""
    /\ _session_cache = <<>>
    /\ assume_calls = 0
    /\ session_calls = 0

\* what every step of an AWS tool that reaches get_session records: the
\* get_session call (argument, normalised account, outcome, exception, result)
\* and the string the tool returns
SessionEvent(arg, outcome, why, ret, expiration, tool_ret) ==
    [op |-> "get_session", arg |-> arg, account |-> Normalized[arg],
     outcome |-> outcome, why |-> why, ret |-> ret, expiration |-> expiration,
     tool_ret |-> tool_ret,
     pre_cache |-> _session_cache, pre_assume |-> assume_calls]

\* an AWS tool with is_configured true calls get_session (through get_client);
\* the call leaves the credentials of the AWSConfig as they were
SessionCallOnly ==
    /\ AwsIsConfigured
    /\ session_calls < MaxSessionCalls
    /\ session_calls' = session_calls + 1
    /\ UNCHANGED <<access_key_id, secret_access_key, role_arn_nonprod, role_arn_admin>>
    /\ UNCHANGED <<vendor_vars, secret_vars, auth_vars, cred_vars, page_vars, clock_vars, token_vars>>

\* an AWS tool with is_configured false: the string of line 218, nothing else
AwsToolNotConfigured(arg) ==
    /\ ~AwsIsConfigured
    /\ UNCHANGED <<vendor_vars, secret_vars, aws_vars, auth_vars, cred_vars, page_vars, clock_vars, token_vars>>
    /\ ev' = [op |-> "aws_tool", arg |-> arg, tool_ret |-> AWS_NOT_CONFIGURED,
              pre_cache |-> _session_cache, pre_assume |-> assume_calls]

\* get_session: the account is not in ACCOUNT_MAP
GetSessionUnknown(arg) ==
    /\ Normalized[arg] \notin ACCOUNT_MAP
    /\ SessionCallOnly
    /\ UNCHANGED <<_session_cache, assume_calls>>
    /\ \E botocore \in BOOLEAN :
         ev' = SessionEvent(arg, "raise", "Unknown account", -1, -1,
                   handle_aws_error(UnknownAccountError(Normalized[arg]), botocore))

\* get_session: prod uses the base credentials
GetSessionProd(arg) ==
    /\ Normalized[arg] = "prod"
    /\ SessionCallOnly
    /\ UNCHANGED <<_session_cache, assume_calls>>
    /\ \E api \in ApiOutcomes :
         ev' = SessionEvent(arg, "return", "", BaseSession, -1, AwsToolAfterClient(api))

\* get_session: the cached session, more than five minutes from its expiry
GetSessionCached(arg) ==
    LET account == Normalized[arg]
    IN  /\ account \in ACCOUNT_MAP \ {"prod"}
        /\ CacheHit(_session_cache, account, now)
        /\ SessionCallOnly
        /\ UNCHANGED <<_session_cache, assume_calls>>
        /\ \E api \in ApiOutcomes :
             ev' = SessionEvent(arg, "return", "", _session_cache[account].session, -1,
                                AwsToolAfterClient(api))

\* get_session: no fresh cache entry and no role ARN for the account
GetSessionNoArn(arg) ==
    LET account == Normalized[arg]
    IN  /\ account \in ACCOUNT_MAP \ {"prod"}
        /\ ~CacheHit(_session_cache, account, now)
        /\ ~Truthy(GetRoleArn(account))
        /\ SessionCallOnly
        /\ UNCHANGED <<_session_cache, assume_calls>>
        /\ \E botocore \in BOOLEAN :
             ev' = SessionEvent(arg, "raise", "No role ARN configured", -1, -1,
                       handle_aws_error(NoRoleArnError(account), botocore))

\* get_session: no fresh cache entry; sts.assume_role succeeds and the new
\* session is cached with the Expiration of the credentials
GetSessionAssume(arg) ==
    LET account == Normalized[arg]
        session == assume_calls + 1
        expiration == now + DURATION_SECONDS
    IN  /\ account \in ACCOUNT_MAP \ {"prod"}
        /\ ~CacheHit(_session_cache, account, now)
        /\ Truthy(GetRoleArn(account))
        /\ SessionCallOnly
        /\ assume_calls' = assume_calls + 1
        /\ _session_cache' = CachePut(_session_cache, account, session, expiration)
        /\ \E api \in ApiOutcomes :
             ev' = SessionEvent(arg, "return", "", session, expiration,
                                AwsToolAfterClient(api))

\* get_session: no fresh cache entry; sts.assume_role raises
GetSessionAssumeFails(arg) ==
    LET account == Normalized[arg]
    IN  /\ account \in ACCOUNT_MAP \ {"prod"}
        /\ ~CacheHit(_session_cache, account, now)
        /\ Truthy(GetRoleArn(account))
        /\ SessionCallOnly
        /\ assume_calls' = assume_calls + 1
        /\ UNCHANGED _session_cache
        /\ ev' = SessionEvent(arg, "raise", "ClientError", -1, -1,
                               handle_aws_error(AwsClientError, TRUE))

TickAws == \E d \in AwsClockSteps : Advance(d)

NextAws ==
    \/ TickAws
    \/ \E arg \in AccountInputs : AwsToolNotConfigured(arg)
    \/ \E arg \in AccountInputs : GetSessionUnknown(arg)
    \/ \E arg \in AccountInputs : GetSessionProd(arg)
    \/ \E arg \in AccountInputs : GetSessionCached(arg)
    \/ \E arg \in AccountInputs : GetSessionNoArn(arg)
    \/ \E arg \in AccountInputs : GetSessionAssume(arg)
    \/ \E arg \in AccountInputs : GetSessionAssumeFails(arg)

-----------------------------------------------------------------------------
(* Vendor request wrappers and the tools that call them *)

\* the wrapper with the rate-limit loop
RetryingWrappers == {"DigitalOceanConfig.do_request"}

\* raise_for_status, then the 204 test, then response.json()
GraphWrappers == {"EmailConfig.graph_request", "_graph_request"}

\* raise_for_status, response.json(), then the test for GraphQL errors
GraphQLWrappers == {"LinearConfig.graphql_request"}

\* the clients of server.py: raise_for_status, then response.json()
ClientWrappers == {"HaloPSAClient.request", "XeroClient.request",
                   "FrontClient.request", "QuoterClient.request",
                   "Pax8Client.request", "SharePointClient.request",
                   "MaxotelClient.request", "CIPPClient.request",
                   "SalesforceClient.request", "N8NClient.request",
                   "DickerDataClient.request", "IngramMicroClient.request"}

Wrappers == RetryingWrappers \cup GraphWrappers \cup GraphQLWrappers \cup ClientWrappers

\* the wrappers that start with `token = await ...get_access_token()`
TokenWrappers == {"EmailConfig.graph_request", "_graph_request",
                  "HaloPSAClient.request", "XeroClient.request",
                  "Pax8Client.request", "SalesforceClient.request",
                  "IngramMicroClient.request"}

\* the wrappers whose tools start with `if not <config>.is_configured: return ...`
CheckedWrappers == RetryingWrappers \cup GraphWrappers \cup GraphQLWrappers

\* `for attempt in range(3)`
MAX_ATTEMPTS == 3

\* `if attempt < 2`
RETRY_ATTEMPTS == 2

\* `min(retry_after, 30)`
RETRY_CAP == 30

\* response.headers.get("Retry-After", "5")
DEFAULT_RETRY_AFTER == "5"

\* `if response.status_code >= 400`, the first status raise_for_status raises for
ERROR_STATUS == 400

RATE_LIMITED == 429

NO_CONTENT == 204

\* the status codes tried
Statuses == {200, 204, 404, 429, 500}

\* the Retry-After header of a response (None: the header is absent)
RetryAfterValues == {None, Some("1"), Some("45"), Some("abc")}

\* the body of a response: a JSON object, a JSON object with the members
\* "errors", "id" and "message", a JSON array, text that is not JSON (or nothing)
Bodies == {"object", "errors", "array", "text"}

Responses == [status : Statuses, retry_after : RetryAfterValues, body : Bodies]

Min(a, b) == IF a < b THEN a ELSE b

Digits == "0123456789"

IsDigit(ch) == \E i \in 1 .. Len(Digits) : SubSeq(Digits, i, i) = ch

DigitValue(ch) == (CHOOSE i \in 1 .. Len(Digits) : SubSeq(Digits, i, i) = ch) - 1

RECURSIVE DigitsValue(_, _)
DigitsValue(s, acc) ==
    IF Len(s) = 0 THEN acc
    ELSE DigitsValue(SubSeq(s, 2, Len(s)), acc * 10 + DigitValue(SubSeq(s, 1, 1)))

\* int(s) of a str: surrounding whitespace, an optional sign, decimal digits;
\* ok is FALSE where int raises ValueError
ParseInt(s) ==
    LET t == Strip(s)
        signed == Len(t) > 0 /\ SubSeq(t, 1, 1) \in {"+", "-"}
        d == IF signed THEN SubSeq(t, 2, Len(t)) ELSE t
        all_digits == Len(d) > 0 /\ \A i \in 1 .. Len(d) : IsDigit(SubSeq(d, i, i))
    IN  IF all_digits
        THEN [ok |-> TRUE,
              v |-> IF SubSeq(t, 1, 1) = "-" THEN 0 - DigitsValue(d, 0)
                    ELSE DigitsValue(d, 0)]
        ELSE [ok |-> FALSE, v |-> 0]

\* int(response.headers.get("Retry-After", "5")), tabulated over the headers tried
RetryAfter ==
    [h \in RetryAfterValues |-> ParseInt(IF h.some THEN h.v ELSE DEFAULT_RETRY_AFTER)]

\* the sleep not capped
SleepSeconds_uncapped(retry_after) == retry_after

\* the argument of asyncio.sleep
SleepSeconds(retry_after) == Min(retry_after, RETRY_CAP)

\* 404 not taken for an error
IsErrorStatus_5xx(status) == status >= 500

\* `response.status_code >= 400`; raise_for_status raises for these
IsErrorStatus(status) == status >= ERROR_STATUS

\* response.json() raises json.JSONDecodeError on a body that is not JSON
JsonParses(body) == body # "text"

NoExc == Exc("", "", "")

NoResult == [kind |-> "none", value |-> "", exc |-> NoExc]

Returns(value) == [kind |-> "return", value |-> value, exc |-> NoExc]

Raises(exc) == [kind |-> "raise", value |-> "", exc |-> exc]

\* {"status": "success"}
SUCCESS_MARKER == "{\"status\": \"success\"}"

\* what response.raise_for_status() raises
HTTPStatusError(status) ==
    Exc("HTTPStatusError", ToString(status), "HTTP error '" \o ToString(status) \o "'")

JSONDecodeError == Exc("JSONDecodeError", "", "Expecting value: line 1 column 1 (char 0)")

\* .get called on a parsed JSON array
AttributeError == Exc("AttributeError", "", "'list' object has no attribute 'get'")

\* what do_request does with one response: sleep and go round the loop again,
\* or finish by returning or raising
DoRequestStep(resp, att) ==
    LET ra == RetryAfter[resp.retry_after]
    IN  IF resp.status = RATE_LIMITED
        THEN IF ~ra.ok
             THEN [next |-> "done", sleep |-> 0,
                   result |-> Raises(Exc("ValueError", "",
                                  "invalid literal for int() with base 10"))]
             ELSE IF att < RETRY_ATTEMPTS
             THEN [next |-> "sleep", sleep |-> SleepSeconds(ra.v), result |-> NoResult]
             ELSE [next |-> "done", sleep |-> 0,
                   result |-> Raises(Exc("Exception", "",
                                  "Rate limited by DigitalOcean API. Retry after "
                                      \o ToString(ra.v) \o "s."))]
        ELSE IF IsErrorStatus(resp.status)
        THEN [next |-> "done", sleep |-> 0,
              result |->
                 IF ~JsonParses(resp.body) THEN Raises(HTTPStatusError(resp.status))
                 ELSE IF resp.body = "array" THEN Raises(AttributeError)
                 ELSE Raises(Exc("Exception", "",
                          "DigitalOcean API error (" \o ToString(resp.status) \o ", "
                              \o (IF resp.body = "errors" THEN "not_found): gone"
                                  ELSE "unknown_error): {}")))]
        ELSE IF resp.status = NO_CONTENT
        THEN [next |-> "done", sleep |-> 0, result |-> Returns(SUCCESS_MARKER)]
        ELSE [next |-> "done", sleep |-> 0,
              result |-> IF JsonParses(resp.body) THEN Returns(resp.body)
                         ELSE Raises(JSONDecodeError)]

\* what graph_request, _graph_request, graphql_request and the request methods
\* of server.py do with the response
SimpleRequestResult(w, resp) ==
    IF IsErrorStatus(resp.status) THEN Raises(HTTPStatusError(resp.status))
    ELSE IF w \in GraphWrappers /\ resp.status = NO_CONTENT THEN Returns(SUCCESS_MARKER)
    ELSE IF ~JsonParses(resp.body) THEN Raises(JSONDecodeError)
    ELSE IF w \in GraphQLWrappers /\ resp.body = "errors"
    THEN Raises(Exc("Exception", "", "GraphQL errors: bad query"))
    ELSE IF w \in GraphQLWrappers /\ resp.body = "array" THEN Raises(AttributeError)
    ELSE Returns(resp.body)

\* what the code of a tool after the wrapper call raises when it fails
HandlingError == Exc("KeyError", "", "'id'")

\* what the token endpoint's error makes get_access_token raise
TokenError == HTTPStatusError(401)

\* the string a tool returns for is_configured false (the strings of
\* email_tools.py and calendar_tools.py open with a cross-mark character, left
\* out here)
NotConfiguredMessage(w) ==
    IF w \in RetryingWrappers
    THEN "Error: DigitalOcean not configured. Set DIGITALOCEAN_TOKEN."
    ELSE IF w = "EmailConfig.graph_request" THEN "Email not configured."
    ELSE IF w = "_graph_request"
    THEN "Error: M365 not configured. Run m365_auth_start to connect."
    ELSE "Error: Linear not configured. Set LINEAR_API_KEY."

\* the `except` clauses of a tool: the tools of digitalocean_tools.py,
\* email_tools.py, calendar_tools.py, linear_tools.py and microsoft365_tools.py
\* return a string, the tools of server.py raise a new Exception
ToolExcept(w, e) ==
    IF w \in ClientWrappers THEN Raises(Exc("Exception", "", "Failed to fetch: " \o e.msg))
    ELSE IF w \in RetryingWrappers \cup GraphQLWrappers
    THEN Returns("Error getting: " \o e.msg)
    ELSE Returns("Error: " \o e.msg)

\* a tool from the return of its wrapper call on: the code that follows inside
\* `try` runs through (handling = "ok") or raises, and the `except` clauses
\* decide what leaves the tool
ToolBoundary(w, res, handling) ==
    IF res.kind = "raise" THEN ToolExcept(w, res.exc)
    ELSE IF handling = "ok" THEN Returns("formatted " \o res.value)
    ELSE ToolExcept(w, HandlingError)

Handlings == {"ok", "raises"}

\* get_access_token of a wrapper that has one: the cached token or a fetched one
TokenSteps(w) == IF w \in TokenWrappers THEN {"cached", "fetched"} ELSE {"none"}

VendorInit ==
    /\ wrapper \in Wrappers
    /\ is_configured \in BOOLEAN
    /\ rq_pc = "idle"
    /\ attempt = 0
    /\ http_requests = 0
    /\ token_fetches = 0
    /\ sleeps = <<>>
    /\ responses = <<>>
    /\ result = NoResult
    /\ tool_result = NoResult

\* no vendor tool in the picture
VendorIdle ==
    /\ wrapper = ""
    /\ is_configured = FALSE
    /\ rq_pc = "idle"
    /\ attempt = 0
    /\ http_requests = 0
    /\ token_fetches = 0
    /\ sleeps = <<>>
    /\ responses = <<>>
    /\ result = NoResult
    /\ tool_result = NoResult

\* a tool can be called: none is running
ToolCallable == rq_pc \in {"idle", "done"}

\* the tool gets past its is_configured test, or has none
ToolProceeds == wrapper \notin CheckedWrappers \/ is_configured

VendorFrame ==
    UNCHANGED <<wrapper, is_configured, auth_vars, cred_vars, page_vars, clock_vars, token_vars, aws_vars,
                secret_vars>>

\* what every step of a tool call records
VendorEvent(op, resp) ==
    [op |-> op, resp |-> resp, attempt |-> attempt,
     pre_requests |-> http_requests, pre_fetches |-> token_fetches,
     pre_sleeps |-> sleeps]

NoResponse == [status |-> 0, retry_after |-> None, body |-> ""]

\* a tool called with is_configured false: the "not configured" string
ToolNotConfigured ==
    /\ ToolCallable
    /\ ~ToolProceeds
    /\ rq_pc' = "done"
    /\ attempt' = 0
    /\ http_requests' = 0
    /\ token_fetches' = 0
    /\ sleeps' = <<>>
    /\ responses' = <<>>
    /\ result' = NoResult
    /\ tool_result' = Returns(NotConfiguredMessage(wrapper))
    /\ ev' = VendorEvent("tool_call", NoResponse)
    /\ VendorFrame

\* a tool calls its wrapper; the wrapper has its token (if it uses one) and
\* sends the API request
ToolCallSends(tok) ==
    /\ ToolCallable
    /\ ToolProceeds
    /\ tok \in TokenSteps(wrapper)
    /\ rq_pc' = "awaiting"
    /\ attempt' = 0
    /\ http_requests' = 1
    /\ token_fetches' = IF tok = "fetched" THEN 1 ELSE 0
    /\ sleeps' = <<>>
    /\ responses' = <<>>
    /\ result' = NoResult
    /\ tool_result' = NoResult
    /\ ev' = VendorEvent("tool_call", NoResponse)
    /\ VendorFrame

\* a tool calls its wrapper; get_access_token sends its token-endpoint request
\* and raises, so that no API request is sent
ToolCallTokenFails ==
    /\ ToolCallable
    /\ ToolProceeds
    /\ wrapper \in TokenWrappers
    /\ rq_pc' = "done"
    /\ attempt' = 0
    /\ http_requests' = 0
    /\ token_fetches' = 1
    /\ sleeps' = <<>>
    /\ responses' = <<>>
    /\ result' = Raises(TokenError)
    /\ tool_result' = ToolExcept(wrapper, TokenError)
    /\ ev' = VendorEvent("tool_call", NoResponse)
    /\ VendorFrame

\* do_request: a 429 before the last attempt, asyncio.sleep is entered
DoRequestRetry(resp) ==
    LET step == DoRequestStep(resp, attempt)
    IN  /\ wrapper \in RetryingWrappers
        /\ rq_pc = "awaiting"
        /\ step.next = "sleep"
        /\ rq_pc' = "sleeping"
        /\ sleeps' = Append(sleeps, step.sleep)
        /\ responses' = Append(responses, resp)
        /\ UNCHANGED <<attempt, http_requests, token_fetches, result, tool_result>>
        /\ ev' = VendorEvent("response", resp)
        /\ VendorFrame

\* do_request: the sleep is over, `continue`: the next attempt sends its request;
\* when range(3) is used up the loop ends and do_request returns None
DoRequestWake ==
    /\ wrapper \in RetryingWrappers
    /\ rq_pc = "sleeping"
    /\ attempt' = attempt + 1
    /\ IF attempt + 1 < MAX_ATTEMPTS
       THEN /\ rq_pc' = "awaiting"
            /\ http_requests' = http_requests + 1
            /\ UNCHANGED <<result, tool_result>>
       ELSE /\ rq_pc' = "done"
            /\ UNCHANGED http_requests
            /\ result' = Returns("None")
            /\ tool_result' = ToolExcept(wrapper, AttributeError)
    /\ UNCHANGED <<token_fetches, sleeps, responses>>
    /\ ev' = VendorEvent("wake", NoResponse)
    /\ VendorFrame

\* do_request returns or raises, and the tool with it
DoRequestDone(resp, handling) ==
    LET step == DoRequestStep(resp, attempt)
    IN  /\ wrapper \in RetryingWrappers
        /\ rq_pc = "awaiting"
        /\ step.next = "done"
        /\ rq_pc' = "done"
        /\ responses' = Append(responses, resp)
        /\ result' = step.result
        /\ tool_result' = ToolBoundary(wrapper, step.result, handling)
        /\ UNCHANGED <<attempt, http_requests, token_fetches, sleeps>>
        /\ ev' = VendorEvent("response", resp)
        /\ VendorFrame

\* any other wrapper returns or raises on its one response, and the tool with it
SimpleRequestDone(resp, handling) ==
    LET res == SimpleRequestResult(wrapper, resp)
    IN  /\ wrapper \in Wrappers \ RetryingWrappers
        /\ rq_pc = "awaiting"
        /\ rq_pc' = "done"
        /\ responses' = Append(responses, resp)
        /\ result' = res
        /\ tool_result' = ToolBoundary(wrapper, res, handling)
        /\ UNCHANGED <<attempt, http_requests, token_fetches, sleeps>>
        /\ ev' = VendorEvent("response", resp)
        /\ VendorFrame

NextVendor ==
    \/ ToolNotConfigured
    \/ \E tok \in {"none", "cached", "fetched"} : ToolCallSends(tok)
    \/ ToolCallTokenFails
    \/ \E resp \in Responses : DoRequestRetry(resp)
    \/ DoRequestWake
    \/ \E resp \in Responses, handling \in Handlings : DoRequestDone(resp, handling)
    \/ \E resp \in Responses, handling \in Handlings : SimpleRequestDone(resp, handling)

-----------------------------------------------------------------------------
(* The secret resolver: get_secret_sync and update_secret_sync *)

SecretIds == {"MCP_API_KEY", "M365_REFRESH_TOKEN"}

\* the payload of the latest version of a secret: its bytes, and whether they
\* are UTF-8
SecretPayloads == [data : {"v1", "v2"}, utf8 : BOOLEAN]

\* the secret does not exist
NoSecret == [data |-> "", utf8 |-> FALSE]

\* what goes wrong around the call to the secret store: nothing, the import of
\* google.cloud.secretmanager, the construction of the client, the call
SecretFailures == {"none", "ImportError", "DefaultCredentialsError",
                   "DeadlineExceeded", "ServiceUnavailable"}

\* the value argument of update_secret_sync (None: not a str)
SecretValues == {None, Some("v1"), Some("v2")}

\* the exception classes `except Exception` catches, of those raised here
ExceptionSubclasses == {"ImportError", "DefaultCredentialsError", "DeadlineExceeded",
                        "ServiceUnavailable", "NotFound", "UnicodeDecodeError",
                        "AttributeError"}

\* `except ImportError` in the place of `except Exception`
Catches_import_only(type) == type = "ImportError"

\* `except Exception as e`
Catches(type) == type \in ExceptionSubclasses

\* the `try` block of get_secret_sync
GetSecretBody(store, secret_id, failure) ==
    IF failure # "none" THEN Raises(Exc(failure, "", "secret store call failed"))
    ELSE IF store[secret_id] = NoSecret
    THEN Raises(Exc("NotFound", "404", "Secret not found"))
    ELSE IF ~store[secret_id].utf8
    THEN Raises(Exc("UnicodeDecodeError", "", "invalid start byte"))
    ELSE Returns(Some(store[secret_id].data))

\* get_secret_sync
get_secret_sync(store, secret_id, failure) ==
    LET body == GetSecretBody(store, secret_id, failure)
    IN  IF body.kind = "raise" /\ Catches(body.exc.type) THEN Returns(None) ELSE body

\* the `try` block of update_secret_sync
UpdateSecretBody(store, secret_id, value, failure) ==
    IF failure \in {"ImportError", "DefaultCredentialsError"}
    THEN Raises(Exc(failure, "", "secret store call failed"))
    ELSE IF ~value.some
    THEN Raises(Exc("AttributeError", "", "'NoneType' object has no attribute 'encode'"))
    ELSE IF failure # "none" THEN Raises(Exc(failure, "", "secret store call failed"))
    ELSE IF store[secret_id] = NoSecret
    THEN Raises(Exc("NotFound", "404", "Secret not found"))
    ELSE Returns(TRUE)

\* update_secret_sync
update_secret_sync(store, secret_id, value, failure) ==
    LET body == UpdateSecretBody(store, secret_id, value, failure)
    IN  IF body.kind = "raise" /\ Catches(body.exc.type) THEN Returns(FALSE) ELSE body

\* add_secret_version: the new latest version
AddSecretVersion(store, secret_id, value) ==
    [store EXCEPT ![secret_id] = [data |-> value.v, utf8 |-> TRUE]]

SecretInit == secret_store \in [SecretIds -> SecretPayloads \cup {NoSecret}]

\* no secret store in the picture
SecretIdle == secret_store = [id \in SecretIds |-> NoSecret]

SecretFrame == UNCHANGED <<auth_vars, cred_vars, page_vars, clock_vars, token_vars, aws_vars, vendor_vars>>

\* a call of get_secret_sync
GetSecretSync(secret_id, failure) ==
    /\ UNCHANGED secret_store
    /\ ev' = [op |-> "get_secret_sync", secret_id |-> secret_id, failure |-> failure,
              value |-> None,
              outcome |-> get_secret_sync(secret_store, secret_id, failure),
              pre_store |-> secret_store]
    /\ SecretFrame

\* a call of update_secret_sync; a call that timed out may still have been
\* applied by the secret store
UpdateSecretSync(secret_id, value, failure) ==
    LET outcome == update_secret_sync(secret_store, secret_id, value, failure)
        written == AddSecretVersion(secret_store, secret_id, value)
    IN  /\ \/ /\ outcome = Returns(TRUE)
              /\ secret_store' = written
           \/ /\ outcome # Returns(TRUE)
              /\ UNCHANGED secret_store
           \/ /\ failure = "DeadlineExceeded" /\ value.some
              /\ secret_store[secret_id] # NoSecret
              /\ secret_store' = written
        /\ ev' = [op |-> "update_secret_sync", secret_id |-> secret_id,
                  failure |-> failure, value |-> value, outcome |-> outcome,
                  pre_store |-> secret_store]
        /\ SecretFrame

NextSecret ==
    \/ \E id \in SecretIds, f \in SecretFailures : GetSecretSync(id, f)
    \/ \E id \in SecretIds, v \in SecretValues, f \in SecretFailures :
          UpdateSecretSync(id, v, f)

-----------------------------------------------------------------------------
(* The credential holders: where a credential comes from, and how often *)

\* the lazily resolved properties; "AWSConfig.access_key_id" stands for the
\* five fields _load_credentials fills at construction
LazyHolders == {"DigitalOceanConfig.token", "LinearConfig.api_key",
                "EmailConfig.client_secret"}

CredHolders == LazyHolders \cup {"AWSConfig.access_key_id", "APIKeyMiddleware.api_key"}

\* the environment variable of the credential: unset, empty, set
CredEnvValues == {None, Some(""), Some("env")}

\* the secret of the credential in the secret store
CredStoreValues == {None, Some(""), Some("sm1"), Some("sm2")}

\* reads of a credential made in one run
MaxAccesses == 3

\* os.getenv(X, "")
GetenvOrEmpty(env) == IF env.some THEN env.v ELSE ""

\* what one evaluation of a credential gives: the value returned, the cached
\* attribute afterwards, the get_secret_sync and os.getenv calls it made
Resolution(value, cache, loaded, store, env) ==
    [value |-> value, cache |-> cache, loaded |-> loaded, store |-> store, env |-> env]

\* the test of the cached attribute left out
LazyAccess_nocache(cached, fetched, env) ==
    IF Truthy(fetched) THEN Resolution(fetched, fetched, FALSE, 1, 0)
    ELSE Resolution(Some(GetenvOrEmpty(env)), Some(GetenvOrEmpty(env)), FALSE, 1, 1)

\* DigitalOceanConfig.token, LinearConfig.api_key, EmailConfig.client_secret:
\* the cached attribute if it is truthy; else the secret store, and the
\* environment only if the secret store gave nothing
LazyAccess(cached, fetched, env) ==
    IF Truthy(cached) THEN Resolution(cached, cached, FALSE, 0, 0)
    ELSE IF Truthy(fetched) THEN Resolution(fetched, fetched, FALSE, 1, 0)
    ELSE Resolution(Some(GetenvOrEmpty(env)), Some(GetenvOrEmpty(env)), FALSE, 1, 1)

\* AWSConfig._load_credentials, one field:
\* os.getenv(X, "") or get_secret_sync(X) or ""
EagerLoad(fetched, env) ==
    LET value == Some(LoadCredential(GetenvOrEmpty(env), fetched))
    IN  Resolution(value, value, TRUE, IF GetenvOrEmpty(env) # "" THEN 0 ELSE 1, 1)

\* APIKeyMiddleware.__init__ without an api_key argument
MiddlewareInit(env) ==
    LET key == InitApiKey(None, env)
    IN  Resolution(key, key, InitKeyLoaded(key), 0, 1)

\* APIKeyMiddleware.api_key
MiddlewareAccess(cached, loaded, fetched) ==
    IF loaded THEN Resolution(cached, cached, TRUE, 0, 0)
    ELSE Resolution(fetched, fetched, TRUE, 1, 0)

\* __init__ of the holder's class
ConstructHolder(h, fetched, env) ==
    IF h \in LazyHolders THEN Resolution(None, None, FALSE, 0, 0)
    ELSE IF h = "AWSConfig.access_key_id" THEN EagerLoad(fetched, env)
    ELSE MiddlewareInit(env)

\* a read of the credential
AccessHolder(h, cached, loaded, fetched, env) ==
    IF h \in LazyHolders THEN LazyAccess(cached, fetched, env)
    ELSE IF h = "AWSConfig.access_key_id" THEN Resolution(cached, cached, TRUE, 0, 0)
    ELSE MiddlewareAccess(cached, loaded, fetched)

CredInit ==
    /\ holder \in CredHolders
    /\ constructed = FALSE
    /\ cred_env \in CredEnvValues
    /\ cred_store \in CredStoreValues
    /\ _cred = None
    /\ _cred_loaded = FALSE
    /\ env_reads = 0
    /\ store_reads = 0
    /\ accesses = 0

\* no credential holder in the picture
CredIdle ==
    /\ holder = ""
    /\ constructed = FALSE
    /\ cred_env = None
    /\ cred_store = None
    /\ _cred = None
    /\ _cred_loaded = FALSE
    /\ env_reads = 0
    /\ store_reads = 0
    /\ accesses = 0

CredFrame ==
    UNCHANGED <<auth_vars, clock_vars, token_vars, aws_vars, vendor_vars, secret_vars,
                page_vars>>

\* what a step of a holder records, and what it does to the holder
Resolve(op, r, fetched) ==
    /\ _cred' = r.cache
    /\ _cred_loaded' = r.loaded
    /\ store_reads' = store_reads + r.store
    /\ env_reads' = env_reads + r.env
    /\ ev' = [op |-> op, value |-> r.value,
              fetched |-> IF r.store > 0 THEN fetched ELSE None,
              pre_cred |-> _cred, pre_store_reads |-> store_reads,
              pre_env_reads |-> env_reads]
    /\ UNCHANGED <<holder, cred_env, cred_store>>
    /\ CredFrame

\* the holder is constructed; get_secret_sync, if called, returns the secret
\* or, having failed, None
Construct ==
    /\ ~constructed
    /\ constructed' = TRUE
    /\ UNCHANGED accesses
    /\ \E fetched \in {None, cred_store} :
         Resolve("construct", ConstructHolder(holder, fetched, cred_env), fetched)

\* the credential is read
Access ==
    /\ constructed
    /\ accesses < MaxAccesses
    /\ accesses' = accesses + 1
    /\ UNCHANGED constructed
    /\ \E fetched \in {None, cred_store} :
         Resolve("access", AccessHolder(holder, _cred, _cred_loaded, fetched, cred_env),
                 fetched)

\* the secret is given a new version in the secret store
RotateSecret ==
    /\ \E v \in CredStoreValues \ {cred_store} : cred_store' = v
    /\ ev' = [op |-> "rotate"]
    /\ UNCHANGED <<holder, constructed, cred_env, _cred, _cred_loaded, env_reads,
                   store_reads, accesses>>
    /\ CredFrame

NextCred ==
    \/ Construct
    \/ Access
    \/ RotateSecret

-----------------------------------------------------------------------------
(* DigitalOceanConfig.do_paginated_request *)

\* the max_pages argument (10 when the caller gives none)
max_pages == 3

\* the longest listing the API serves, in pages
MaxListing == 4

\* meta.total absent from the responses
NoTotal == -1

\* meta.total of the responses
TotalValues == {NoTotal, 2, 4}

\* one response: how many items it carries under result_key, and whether
\* links.pages.next is there
PageShapes == [n : {0, 1, 2}, next : BOOLEAN]

\* what the API can serve: one response per page, and the meta.total of all
Listings ==
    [pages : UNION {[1..k -> PageShapes] : k \in 1..MaxListing}, total : TotalValues]

\* the response to a request for page p; past the last page, an empty one
Served(l, p) == IF p <= Len(l.pages) THEN l.pages[p] ELSE [n |-> 0, next |-> FALSE]

\* data.get(result_key, []) of the response for page p: an item is the pair
\* of its page and its position there
Items(l, p) == [i \in 1..Served(l, p).n |-> <<p, i>>]

\* meta.get("total", 0)
Total(l) == IF l.total = NoTotal THEN 0 ELSE l.total

\* the loop's `break`:
\* not pages_info.get("next") or len(all_results) >= total
Breaks(l, p, collected) == ~Served(l, p).next \/ Len(collected) >= Total(l)

PageInit ==
    /\ listing \in Listings
    /\ page_pc = "idle"
    /\ page = 0
    /\ all_results = <<>>
    /\ page_requests = <<>>
    /\ page_result = NoResult

\* no listing in the picture
PageIdle ==
    /\ listing = <<>>
    /\ page_pc = "idle"
    /\ page = 0
    /\ all_results = <<>>
    /\ page_requests = <<>>
    /\ page_result = NoResult

PageFrame ==
    UNCHANGED <<auth_vars, clock_vars, token_vars, aws_vars, vendor_vars, secret_vars,
                cred_vars>>

\* do_paginated_request is called: page = 1 and, max_pages being at least 1,
\* the first request is sent
PaginatedStart ==
    /\ page_pc = "idle"
    /\ page_pc' = "awaiting"
    /\ page' = 1
    /\ all_results' = <<>>
    /\ page_requests' = <<1>>
    /\ UNCHANGED <<listing, page_result>>
    /\ ev' = [op |-> "do_paginated_request"]
    /\ PageFrame

\* the response for the page arrives: its items are appended; the loop ends
\* by its `break` or by page > max_pages, or the next page is requested
PaginatedResponse ==
    LET collected == all_results \o Items(listing, page)
        ends == Breaks(listing, page, collected) \/ page + 1 > max_pages
    IN  /\ page_pc = "awaiting"
        /\ all_results' = collected
        /\ IF ends
           THEN /\ page_pc' = "done"
                /\ page_result' = Returns(collected)
                /\ UNCHANGED <<page, page_requests>>
           ELSE /\ page' = page + 1
                /\ page_requests' = Append(page_requests, page + 1)
                /\ UNCHANGED <<page_pc, page_result>>
        /\ UNCHANGED listing
        /\ ev' = [op |-> "page_response", page |-> page]
        /\ PageFrame

\* do_request raises for the page (an error status, three times 429, a
\* transport error): do_paginated_request lets it through
PaginatedFails ==
    /\ page_pc = "awaiting"
    /\ page_pc' = "done"
    /\ page_result' = Raises(HTTPStatusError(500))
    /\ UNCHANGED <<listing, page, all_results, page_requests>>
    /\ ev' = [op |-> "page_fails", page |-> page]
    /\ PageFrame

NextPage ==
    \/ PaginatedStart
    \/ PaginatedResponse
    \/ PaginatedFails

-----------------------------------------------------------------------------
(* aws_run_command *)

\* the timeout_seconds argument
TimeoutInputs == {-5, 0, 120, 1000}

\* how long the AWS CLI process would run if left alone, in seconds
ProcDurations == {5, 400}

\* the account argument of aws_run_command
CommandAccounts == {None, Some(" NonProd "), Some("dev")}

\* the time that passes between two calls of aws_run_command
CommandClockSteps == {3000}

\* the exit code of the AWS CLI process
ExitCodes == {0, 1}

\* calls of aws_run_command made in one run
MaxCommands == 2

Max(a, b) == IF a > b THEN a ELSE b

\* the floor of ten seconds left out
EffectiveTimeout_nofloor(timeout_seconds) == Min(timeout_seconds, 300)

\* timeout_seconds = min(max(10, timeout_seconds), 300)
EffectiveTimeout(timeout_seconds) == Min(Max(10, timeout_seconds), 300)

\* the string of `except asyncio.TimeoutError`
TimedOutMessage(timeout_seconds) ==
    "Error: Command timed out after " \o ToString(timeout_seconds) \o " seconds."

\* the strings returned for a process that ended: by its exit code
CommandMessage(returncode) ==
    IF returncode # 0 THEN "**Error running AWS CLI**" ELSE "**Account:**"

\* get_session as a function of what it reads: whether it returns or raises,
\* the session, the expiry of the session's credentials (-1: the static keys,
\* which have none), the cache afterwards and the sts.assume_role calls made
GetSession(arg, sts_ok) ==
    LET account == Normalized[arg]
        raises(e, n) == [outcome |-> "raise", exc |-> e, session |-> -1, expiry |-> -1,
                         cache |-> _session_cache, assumes |-> n]
        returns(s, x, c, n) == [outcome |-> "return", exc |-> NoExc, session |-> s,
                                expiry |-> x, cache |-> c, assumes |-> n]
    IN  IF account \notin ACCOUNT_MAP THEN raises(UnknownAccountError(account), 0)
        ELSE IF account = "prod" THEN returns(BaseSession, -1, _session_cache, 0)
        ELSE IF CacheHit(_session_cache, account, now)
        THEN returns(_session_cache[account].session, _session_cache[account].expiry,
                     _session_cache, 0)
        ELSE IF ~Truthy(GetRoleArn(account)) THEN raises(NoRoleArnError(account), 0)
        ELSE IF ~sts_ok THEN raises(AwsClientError, 1)
        ELSE returns(assume_calls + 1, now + DURATION_SECONDS,
                     CachePut(_session_cache, account, assume_calls + 1,
                              now + DURATION_SECONDS), 1)

\* what a call of aws_run_command records
CommandEvent(arg, timeout_seconds, s, spawned, wait, duration, tool_ret) ==
    [op |-> "aws_run_command", arg |-> arg, account |-> Normalized[arg],
     timeout_seconds |-> timeout_seconds, outcome |-> s.outcome,
     session |-> s.session, expiry |-> s.expiry, at |-> now,
     spawned |-> spawned, wait |-> wait, duration |-> duration,
     waited |-> Min(duration, wait), tool_ret |-> tool_ret,
     pre_cache |-> _session_cache]

CommandFrame ==
    /\ UNCHANGED <<access_key_id, secret_access_key, role_arn_nonprod, role_arn_admin>>
    /\ UNCHANGED <<vendor_vars, secret_vars, auth_vars, cred_vars, page_vars, token_vars>>

\* aws_run_command with is_configured false
RunCommandNotConfigured(arg, timeout_seconds) ==
    /\ ~AwsIsConfigured
    /\ UNCHANGED <<aws_vars, clock_vars>>
    /\ UNCHANGED <<vendor_vars, secret_vars, auth_vars, cred_vars, page_vars, token_vars>>
    /\ ev' = [op |-> "aws_run_command", arg |-> arg, account |-> Normalized[arg],
              timeout_seconds |-> timeout_seconds, outcome |-> "",
              session |-> -1, expiry |-> -1, at |-> now, spawned |-> FALSE,
              wait |-> 0, duration |-> 0, waited |-> 0,
              tool_ret |-> AWS_NOT_CONFIGURED, pre_cache |-> _session_cache]

\* aws_run_command whose get_session call raises: `except Exception`
RunCommandNoSession(arg, timeout_seconds) ==
    \E sts_ok \in BOOLEAN :
        LET s == GetSession(arg, sts_ok)
        IN  /\ AwsIsConfigured
            /\ session_calls < MaxCommands
            /\ s.outcome = "raise"
            /\ session_calls' = session_calls + 1
            /\ assume_calls' = assume_calls + s.assumes
            /\ _session_cache' = s.cache
            /\ UNCHANGED clock_vars
            /\ CommandFrame
            /\ ev' = CommandEvent(arg, timeout_seconds, s, FALSE, 0, 0,
                                  handle_aws_error(s.exc, TRUE))

\* aws_run_command whose process ends before the wait expires
RunCommandEnds(arg, timeout_seconds) ==
    \E duration \in ProcDurations, returncode \in ExitCodes :
        LET s == GetSession(arg, TRUE)
            wait == EffectiveTimeout(timeout_seconds)
        IN  /\ AwsIsConfigured
            /\ session_calls < MaxCommands
            /\ s.outcome = "return"
            /\ duration < wait
            /\ session_calls' = session_calls + 1
            /\ assume_calls' = assume_calls + s.assumes
            /\ _session_cache' = s.cache
            /\ now' = now + duration
            /\ UNCHANGED ticks
            /\ CommandFrame
            /\ ev' = CommandEvent(arg, timeout_seconds, s, TRUE, wait, duration,
                                  CommandMessage(returncode))

\* aws_run_command whose process is still running when the wait expires:
\* asyncio.wait_for raises TimeoutError after `wait` seconds
RunCommandTimesOut(arg, timeout_seconds) ==
    \E duration \in ProcDurations :
        LET s == GetSession(arg, TRUE)
            wait == EffectiveTimeout(timeout_seconds)
        IN  /\ AwsIsConfigured
            /\ session_calls < MaxCommands
            /\ s.outcome = "return"
            /\ duration > wait
            /\ session_calls' = session_calls + 1
            /\ assume_calls' = assume_calls + s.assumes
            /\ _session_cache' = s.cache
            /\ now' = now + wait
            /\ UNCHANGED ticks
            /\ CommandFrame
            /\ ev' = CommandEvent(arg, timeout_seconds, s, TRUE, wait, duration,
                                  TimedOutMessage(wait))

TickCmd == \E d \in CommandClockSteps : Advance(d)

NextCmd ==
    \/ TickCmd
    \/ \E arg \in CommandAccounts, t \in TimeoutInputs : RunCommandNotConfigured(arg, t)
    \/ \E arg \in CommandAccounts, t \in TimeoutInputs : RunCommandNoSession(arg, t)
    \/ \E arg \in CommandAccounts, t \in TimeoutInputs : RunCommandEnds(arg, t)
    \/ \E arg \in CommandAccounts, t \in TimeoutInputs : RunCommandTimesOut(arg, t)

-----------------------------------------------------------------------------
(* The refresh-token managers, with the token endpoint's replies in flight *)

\* the managers that use the refresh_token grant
RefreshManagers == {"Microsoft365Config", "XeroClient"}

\* the "" of tokens.get("refresh_token", "")
EmptyRefresh == -1

\* no reply on its way to a caller
NoReply == [token |-> 0, rt |-> "none", refresh |-> EmptyRefresh, expires_in |-> -1]

\* the refresh_token of a reply to a refresh_token grant: the key missing, the
\* token the request carried, or a token issued with this reply
ReplyRefreshValues == {"none", "same", "new"}

RefreshInit ==
    /\ manager \in RefreshManagers
    /\ _access_token = 0
    /\ _token_expiry = -1
    /\ _refresh_token = 0
    /\ stored_refresh = 0
    /\ store_writes = 0
    /\ pc = [c \in Callers |-> "idle"]
    /\ sent_refresh = [c \in Callers |-> 0]
    /\ token_requests = 0
    /\ tokens_issued = 0
    /\ refresh_issued = 0
    /\ calls = 0
    /\ inflight = [c \in Callers |-> NoReply]

RefreshFrame ==
    UNCHANGED <<vendor_vars, secret_vars, auth_vars, cred_vars, page_vars, clock_vars,
                aws_vars>>

\* Microsoft365Config.is_configured, as far as the refresh token goes: the
\* tools call get_access_token only then
RefreshConfigured == _refresh_token # EmptyRefresh

\* the token endpoint handles the request of caller c: it issues an access
\* token and, maybe, a refresh token, and its reply is on its way
EndpointAnswers(c) ==
    /\ pc[c] = "awaiting"
    /\ \E expires_in \in ExpiresInValues, rt \in ReplyRefreshValues :
        /\ tokens_issued' = tokens_issued + 1
        /\ refresh_issued' = IF rt = "new" THEN refresh_issued + 1 ELSE refresh_issued
        /\ inflight' = [inflight EXCEPT ![c] =
                           [token |-> tokens_issued + 1, rt |-> rt,
                            refresh |-> IF rt = "new" THEN refresh_issued + 1
                                        ELSE IF rt = "same" THEN sent_refresh[c]
                                        ELSE EmptyRefresh,
                            expires_in |-> expires_in]]
    /\ pc' = [pc EXCEPT ![c] = "answered"]
    /\ UNCHANGED <<manager, _access_token, _token_expiry, _refresh_token,
                   stored_refresh, store_writes, sent_refresh, token_requests, calls>>
    /\ RefreshFrame
    /\ ev' = [op |-> "answer", caller |-> c]

\* the reply reaches caller c: the lines after data = response.json(), which
\* run without an await
ReplyArrives(c) ==
    LET r == inflight[c]
        rotated == /\ manager = "Microsoft365Config"
                   /\ RefreshRotated(r.rt # "none", r.refresh, _refresh_token)
        expiry == ComputeExpiry(manager, r.expires_in, now)
    IN  /\ pc[c] = "answered"
        /\ \E saved \in (IF rotated THEN BOOLEAN ELSE {FALSE}) :
            /\ _access_token' = r.token
            /\ _refresh_token' = IF rotated THEN r.refresh ELSE _refresh_token
            /\ store_writes' = IF rotated THEN store_writes + 1 ELSE store_writes
            /\ stored_refresh' = IF saved THEN r.refresh ELSE stored_refresh
            /\ _token_expiry' = IF expiry = -2 THEN _token_expiry ELSE expiry
            /\ ev' = [op |-> IF expiry = -2 THEN "raise" ELSE "return",
                      caller |-> c, ret |-> r.token, requests |-> 1,
                      why |-> IF expiry = -2 THEN "KeyError" ELSE "",
                      expires_in |-> r.expires_in,
                      refresh_in_data |-> r.rt # "none", new_refresh |-> r.refresh,
                      written |-> IF rotated THEN r.refresh ELSE -1,
                      saved |-> saved,
                      pre_refresh |-> _refresh_token, pre_writes |-> store_writes,
                      pre_requests |-> token_requests,
                      pre_token |-> _access_token, pre_expiry |-> _token_expiry]
        /\ pc' = [pc EXCEPT ![c] = "idle"]
        /\ inflight' = [inflight EXCEPT ![c] = NoReply]
        /\ UNCHANGED <<manager, sent_refresh, token_requests, tokens_issued,
                       refresh_issued, calls>>
        /\ RefreshFrame

\* the reply never reaches caller c (the connection breaks): `await
\* client.post` raises and nothing is assigned
ReplyLost(c) ==
    /\ pc[c] = "answered"
    /\ pc' = [pc EXCEPT ![c] = "idle"]
    /\ inflight' = [inflight EXCEPT ![c] = NoReply]
    /\ UNCHANGED <<manager, _access_token, _token_expiry, _refresh_token,
                   stored_refresh, store_writes, sent_refresh, token_requests,
                   tokens_issued, refresh_issued, calls>>
    /\ RefreshFrame
    /\ ev' = [op |-> "raise", caller |-> c, requests |-> 1, why |-> "http"]

\* m365_auth_complete, from the reply to its authorization_code request on:
\* the three attributes are set, the refresh token is saved if there is one,
\* and the string returned depends on whether the save worked
AuthComplete ==
    /\ manager = "Microsoft365Config"
    /\ calls < MaxCalls
    /\ calls' = calls + 1
    /\ \E expires_in \in ExpiresInValues, rt \in {"none", "new"} :
        LET refresh_token == IF rt = "new" THEN refresh_issued + 1 ELSE EmptyRefresh
        IN  \E saved \in (IF refresh_token # EmptyRefresh THEN BOOLEAN ELSE {FALSE}) :
            /\ tokens_issued' = tokens_issued + 1
            /\ refresh_issued' = IF rt = "new" THEN refresh_issued + 1 ELSE refresh_issued
            /\ _access_token' = tokens_issued + 1
            /\ _refresh_token' = refresh_token
            /\ _token_expiry' = ComputeExpiry("Microsoft365Config", expires_in, now)
            /\ store_writes' = IF refresh_token # EmptyRefresh THEN store_writes + 1
                               ELSE store_writes
            /\ stored_refresh' = IF saved THEN refresh_token ELSE stored_refresh
            /\ ev' = [op |-> "m365_auth_complete", saved |-> saved,
                      ret |-> IF saved THEN "Connected to Microsoft 365!"
                              ELSE "Connected to Microsoft 365 for this session!",
                      pre_refresh |-> _refresh_token, pre_writes |-> store_writes]
    /\ UNCHANGED <<manager, pc, sent_refresh, token_requests, inflight>>
    /\ RefreshFrame

NextRefresh ==
    \/ Tick
    \/ \E c \in Callers : RefreshConfigured /\ GetCached(c)
    \/ \E c \in Callers : RefreshConfigured /\ SendTokenRequest(c)
    \/ \E c \in Callers : TokenRequestFails(c)
    \/ \E c \in Callers : EndpointAnswers(c)
    \/ \E c \in Callers : ReplyArrives(c)
    \/ \E c \in Callers : ReplyLost(c)
    \/ AuthComplete

-----------------------------------------------------------------------------
(* Specifications *)

\* the API-key gate
Init ==
    /\ AuthInit
    /\ ClockInit
    /\ TokenIdle
    /\ AwsIdle
    /\ VendorIdle
    /\ SecretIdle
    /\ CredIdle
    /\ PageIdle
    /\ ev = [op |-> "init"]

Next == Dispatch

Spec == Init /\ [][Next]_vars

\* one token-based credential manager and its callers
InitToken ==
    /\ TokenInit
    /\ ClockInit
    /\ AuthIdle
    /\ AwsIdle
    /\ VendorIdle
    /\ SecretIdle
    /\ CredIdle
    /\ PageIdle
    /\ ev = [op |-> "init"]

SpecToken == InitToken /\ [][NextToken]_vars

\* one refresh-token manager, its callers and the token endpoint
InitRefresh ==
    /\ RefreshInit
    /\ ClockInit
    /\ AuthIdle
    /\ AwsIdle
    /\ VendorIdle
    /\ SecretIdle
    /\ CredIdle
    /\ PageIdle
    /\ ev = [op |-> "init"]

SpecRefresh == InitRefresh /\ [][NextRefresh]_vars

\* one AWSConfig and its get_session calls
InitAws ==
    /\ AwsInit
    /\ ClockInit
    /\ AuthIdle
    /\ TokenIdle
    /\ VendorIdle
    /\ SecretIdle
    /\ CredIdle
    /\ PageIdle
    /\ ev = [op |-> "init"]

SpecAws == InitAws /\ [][NextAws]_vars

\* one AWSConfig and the calls of aws_run_command
SpecCmd == InitAws /\ [][NextCmd]_vars

\* one vendor, one of its tools and the request wrapper the tool calls
InitVendor ==
    /\ VendorInit
    /\ ClockInit
    /\ AuthIdle
    /\ TokenIdle
    /\ AwsIdle
    /\ SecretIdle
    /\ CredIdle
    /\ PageIdle
    /\ ev = [op |-> "init"]

SpecVendor == InitVendor /\ [][NextVendor]_vars

\* the secret store and the calls of the two resolver functions
InitSecret ==
    /\ SecretInit
    /\ ClockInit
    /\ AuthIdle
    /\ TokenIdle
    /\ AwsIdle
    /\ VendorIdle
    /\ CredIdle
    /\ PageIdle
    /\ ev = [op |-> "init"]

SpecSecret == InitSecret /\ [][NextSecret]_vars

\* one credential holder, its environment variable and its secret
InitCred ==
    /\ CredInit
    /\ ClockInit
    /\ AuthIdle
    /\ TokenIdle
    /\ AwsIdle
    /\ VendorIdle
    /\ SecretIdle
    /\ PageIdle
    /\ ev = [op |-> "init"]

SpecCred == InitCred /\ [][NextCred]_vars

\* one call of do_paginated_request against one listing
InitPage ==
    /\ PageInit
    /\ ClockInit
    /\ AuthIdle
    /\ TokenIdle
    /\ AwsIdle
    /\ VendorIdle
    /\ SecretIdle
    /\ CredIdle
    /\ ev = [op |-> "init"]

SpecPage == InitPage /\ [][NextPage]_vars


-----------------------------------------------------------------------------
(* The API-key gate: claims C1 to C5 *)

IsDispatch == ev.op = "dispatch"

\* a request that presents no key at all
NoKeyPresented == ~Truthy(ev.q) /\ ~Truthy(ev.x) /\ ~Truthy(ev.auth)

C2_PublicPathsBypass ==
    (IsDispatch /\ ev.path \in {"/health", "/status", "/callback",
                                 "/sharepoint-callback", "/"}) =>
        (ev.forwarded /\ ev.status # 401)

C2_Witness ==
    /\ IsDispatch /\ ev.path = "/sharepoint-callback" /\ ev.forwarded
    /\ _api_key = Some("ab") /\ _key_loaded
    /\ ev.q = Some("cd") /\ ev.x = None /\ ev.auth = Some("Bearer cd")

\* C3: with no constructor key, MCP_API_KEY absent from the environment and the
\* secret resolver returning None, every request to every path is forwarded and
\* none is answered 401, for the lifetime of the middleware.
C3_OpenMode ==
    (/\ ctor_api_key = None
     /\ env_MCP_API_KEY = None
     /\ \A i \in DOMAIN secret_results : secret_results[i] = None
     /\ IsDispatch) =>
        (ev.forwarded /\ ev.status # 401)

C3_Witness ==
    /\ ctor_api_key = None /\ env_MCP_API_KEY = None
    /\ secret_results = <<None>> /\ _key_loaded
    /\ IsDispatch /\ ev.path = "/mcp" /\ ev.was_loaded
    /\ ev.q = Some("ab") /\ ev.forwarded

\* the Authorization value with a leading "Bearer " removed
WithoutBearerPrefix(s) ==
    IF StartsWith(s, "Bearer ") THEN SubSeq(s, Len("Bearer ") + 1, Len(s)) ELSE s

\* the first present and non-empty of: the api_key query parameter, the
\* X-API-Key header, the Authorization header without its "Bearer " prefix
FirstPresentedKey ==
    IF Truthy(ev.q) THEN ev.q
    ELSE IF Truthy(ev.x) THEN ev.x
    ELSE Some(WithoutBearerPrefix(AuthorizationOrDefault(ev.auth)))

\* C4: the value compared with the configured key is the first present and
\* non-empty of the api_key query parameter, the X-API-Key header and the
\* Authorization header with the "Bearer " prefix removed; a lower-priority
\* source is not consulted once one is found.
C4_KeySourcePriority ==
    (IsDispatch /\ ev.path \notin PUBLIC_PATHS /\ Truthy(_api_key)) =>
        /\ ev.provided = FirstPresentedKey
        /\ ev.forwarded <=> (FirstPresentedKey = _api_key)

\* a key is given by the constructor or by the environment
KeyGiven == Truthy(ctor_api_key) \/ Truthy(env_MCP_API_KEY)

\* C5: key loading is a one-way, lazy, two-state machine: loaded from the start
\* when a key is given by constructor or environment and not loaded otherwise;
\* loaded by the first request to a non-public path and never unloaded; never
\* loaded by a request to a public path; the secret resolver is called at most
\* once, also when that call returned no key.
C5_LazyKeyLoading ==
    /\ [](ev.op = "init" => (_key_loaded <=> KeyGiven))
    /\ [][_key_loaded => _key_loaded']_vars
    /\ [][(ev'.op = "dispatch" /\ ev'.path \notin PUBLIC_PATHS) => _key_loaded']_vars
    /\ [][(ev'.op = "dispatch" /\ ev'.path \in PUBLIC_PATHS)
            => UNCHANGED <<_key_loaded, secret_calls>>]_vars
    /\ [](secret_calls <= 1)
    /\ []((~KeyGiven /\ IsDispatch /\ ev.path \notin PUBLIC_PATHS) => secret_calls = 1)

-----------------------------------------------------------------------------
(* The token-based credential managers: claims C6 to C9 *)

\* get_access_token was just called: the step is its early return or the
\* sending of its token-endpoint request
CallStarted == ev.op = "send" \/ (ev.op = "return" /\ ev.requests = 0)

\* a call that sent a request has just returned
RefreshReturned == ev.op = "return" /\ ev.requests = 1

\* C6: a get_access_token call made while a token is cached and its expiry
\* minus the current time is greater than the safety margin returns the cached
\* token, sends no token-endpoint request and leaves the cached token and
\* expiry as they were, however many calls came before.
C6_FreshTokenReused ==
    (/\ CallStarted
     /\ ev.pre_token # 0
     /\ ev.pre_expiry # -1
     /\ ev.pre_expiry - now > 60) =>
        /\ ev.op = "return"
        /\ ev.ret = ev.pre_token
        /\ token_requests = ev.pre_requests
        /\ _access_token = ev.pre_token
        /\ _token_expiry = ev.pre_expiry

C6_Witness ==
    /\ CallStarted /\ ev.op = "return" /\ calls = MaxCalls
    /\ ev.pre_token # 0 /\ ev.pre_expiry - now > 60
    /\ token_requests = 1 /\ now > 0

\* what C7 says of a call that sent a request and has returned: it sent no
\* further request, stored the token of the response and an expiry, and
\* returns the new token, not the stale one
RefreshStoredAndReturned ==
    RefreshReturned =>
        /\ token_requests = ev.pre_requests
        /\ ev.ret = tokens_issued
        /\ ev.ret # ev.pre_token
        /\ _access_token = ev.ret
        /\ _token_expiry # -1

\* C7 as stated: a call made when no credential is cached, or when the cached
\* expiry minus the current time is at most the margin, sends exactly one
\* token-endpoint request before it returns, stores the new token and expiry
\* and returns the new token.
C7_RefreshWithinMargin ==
    /\ (CallStarted
        /\ (ev.pre_token = 0 \/ ev.pre_expiry = -1 \/ ev.pre_expiry - now <= 60))
          => (ev.op = "send" /\ token_requests = ev.pre_requests + 1)
    /\ RefreshStoredAndReturned

\* C7, amended: a call made when no credential is cached, or when the cached
\* expiry minus the current time is at most zero, sends exactly one
\* token-endpoint request; when that call returns it has stored the token of
\* the response and an expiry, sent no further request, and returns the new
\* token, not the stale one. With 0 < expiry - now the cached token is returned
\* and no request is sent.
C7_RefreshWhenExpired ==
    /\ (CallStarted /\ (ev.pre_token = 0 \/ ev.pre_expiry = -1 \/ ev.pre_expiry - now <= 0))
          => (ev.op = "send" /\ token_requests = ev.pre_requests + 1)
    /\ (CallStarted /\ ev.pre_token # 0 /\ ev.pre_expiry # -1 /\ ev.pre_expiry - now > 0)
          => (ev.op = "return" /\ token_requests = ev.pre_requests
              /\ ev.ret = ev.pre_token)
    /\ RefreshStoredAndReturned

C7_Witness ==
    /\ RefreshReturned /\ ev.pre_token # 0 /\ ev.pre_expiry # -1
    /\ ev.pre_expiry <= now /\ now > 0 /\ tokens_issued = 2
    /\ _access_token = 2 /\ token_requests = 2

\* C8 as stated: for every manager, the expiry stored after a successful
\* token-endpoint request is the time of issue plus the TTL the response
\* declares minus 60 seconds.
C8_ExpiryFromDeclaredTtl ==
    (RefreshReturned /\ ev.expires_in # -1) =>
        _token_expiry = now + ev.expires_in - 60

\* C8, amended: EmailConfig, Microsoft365Config, HaloPSAClient, XeroClient and
\* IngramMicroClient store the time the response is processed plus the declared
\* TTL minus 60 seconds, the first two taking 3600 for a response that declares
\* no TTL; Pax8Client and SalesforceClient store that time plus one hour,
\* whatever the response declares.
C8_ExpiryPerManager ==
    RefreshReturned =>
        IF manager \in {"Pax8Client", "SalesforceClient"}
        THEN _token_expiry = now + 3600
        ELSE IF ev.expires_in # -1
        THEN _token_expiry = now + ev.expires_in - 60
        ELSE /\ manager \in {"EmailConfig", "Microsoft365Config"}
             /\ _token_expiry = now + 3600 - 60

C8_Witness ==
    /\ RefreshReturned /\ manager = "HaloPSAClient" /\ now > 0
    /\ ev.expires_in = 120 /\ _token_expiry = now + 60

\* C9: when Microsoft365Config processes a token response, M365_REFRESH_TOKEN is
\* written to the secret store exactly when the response holds a refresh token
\* that differs from the cached one, and then the in-memory refresh token is
\* the new one; otherwise the in-memory refresh token stays and nothing is
\* written.
C9_RefreshTokenRotation ==
    (RefreshReturned /\ manager = "Microsoft365Config") =>
        LET differs == ev.refresh_in_data /\ ev.new_refresh # ev.pre_refresh
        IN  /\ differs => /\ store_writes = ev.pre_writes + 1
                          /\ ev.written = ev.new_refresh
                          /\ _refresh_token = ev.new_refresh
            /\ ~differs => /\ store_writes = ev.pre_writes
                           /\ _refresh_token = ev.pre_refresh

C9_Witness ==
    /\ RefreshReturned /\ manager = "Microsoft365Config"
    /\ ev.refresh_in_data /\ ev.new_refresh # ev.pre_refresh
    /\ store_writes = 2 /\ _refresh_token = 2 /\ stored_refresh = 1

-----------------------------------------------------------------------------
(* The AWS session cache: claims C10 to C12 *)

\* the role ARN configured for the account of the call just made
RoleArnOfCall ==
    IF ev.account = "nonprod" THEN role_arn_nonprod ELSE role_arn_admin

\* C10: get_session for nonprod or admin with a role ARN configured: with a
\* cache entry and now < expiry - 5 minutes the cached session is returned, no
\* role is assumed and the entry stays; otherwise exactly one role-assumption
\* call is made and, when it returns, the entry holds the new session with the
\* expiry that call returned, and the new session is returned.
C10_NonHomeSession ==
    (/\ ev.op = "get_session"
     /\ ev.account \in {"nonprod", "admin"}
     /\ RoleArnOfCall # "") =>
        LET cached == ev.account \in DOMAIN ev.pre_cache
            fresh == cached /\ now < ev.pre_cache[ev.account].expiry - 300
        IN  /\ fresh => /\ ev.outcome = "return"
                        /\ ev.ret = ev.pre_cache[ev.account].session
                        /\ assume_calls = ev.pre_assume
                        /\ _session_cache = ev.pre_cache
            /\ ~fresh => /\ assume_calls = ev.pre_assume + 1
                         /\ ev.outcome = "return" =>
                              /\ ev.account \in DOMAIN _session_cache
                              /\ _session_cache[ev.account] =
                                    [session |-> ev.ret, expiry |-> ev.expiration]
                              /\ ev.expiration = now + 3600
                              /\ ev.ret = assume_calls
                              /\ cached => ev.ret # ev.pre_cache[ev.account].session

C10_Witness ==
    /\ ev.op = "get_session" /\ ev.arg = Some(" NonProd ") /\ ev.outcome = "return"
    /\ "nonprod" \in DOMAIN ev.pre_cache
    /\ now = ev.pre_cache["nonprod"].expiry - 300
    /\ ev.ret = 2 /\ _session_cache["nonprod"].expiry = now + 3600

\* C11: get_session for the home account ("prod", also through a None or an
\* empty account argument) returns the session built from the static base keys:
\* it performs no role-assumption call and returns the base session and leaves
\* the session cache as it was, whatever the cache contains.
C11_HomeAccountDirect ==
    (ev.op = "get_session" /\ ev.arg \in {None, Some(""), Some("prod")}) =>
        /\ ev.outcome = "return"
        /\ ev.ret = BaseSession
        /\ \A a \in DOMAIN ev.pre_cache : ev.pre_cache[a].session # ev.ret
        /\ assume_calls = ev.pre_assume
        /\ _session_cache = ev.pre_cache

C11_Witness ==
    /\ ev.op = "get_session" /\ ev.arg = None /\ ev.outcome = "return"
    /\ DOMAIN _session_cache = {"nonprod", "admin"}
    /\ ev.ret = BaseSession

\* C12: get_session for nonprod or admin with no role ARN configured for that
\* account raises the "No role ARN configured" error, makes no role-assumption
\* call and leaves the session cache as it was; the tool that made the call
\* returns a string starting with "Error:".
C12_NoRoleArn ==
    (/\ ev.op = "get_session"
     /\ ev.account \in {"nonprod", "admin"}
     /\ RoleArnOfCall = "") =>
        /\ ev.outcome = "raise"
        /\ ev.why = "No role ARN configured"
        /\ assume_calls = ev.pre_assume
        /\ _session_cache = ev.pre_cache
        /\ StartsWith(ev.tool_ret, "Error:")
        /\ StartsWith(ev.tool_ret,
                "Error: No role ARN configured for account '" \o ev.account \o "'")

C12_Witness ==
    /\ ev.op = "get_session" /\ ev.arg = Some(" NonProd ") /\ ev.outcome = "raise"
    /\ role_arn_nonprod = "" /\ role_arn_admin # ""
    /\ "admin" \in DOMAIN _session_cache
    /\ ev.tool_ret = "Error: No role ARN configured for account 'nonprod'. Set AWS_ROLE_ARN_NONPROD environment variable."

-----------------------------------------------------------------------------
(* The vendor request wrappers and the tool boundary: claims C13 to C19 *)

\* the delay in seconds a 429 response suggests: its Retry-After header, and 5
\* when it has none
SuggestedDelay(h) ==
    IF h = Some("1") THEN 1 ELSE IF h = Some("45") THEN 45 ELSE 5

\* a do_request call has ended after a 429, a 429 and a response with a
\* success status
TwiceLimitedThenSuccess ==
    /\ wrapper = "DigitalOceanConfig.do_request"
    /\ rq_pc = "done"
    /\ Len(responses) = 3
    /\ responses[1].status = 429
    /\ responses[2].status = 429
    /\ responses[3].status \in 200 .. 299

\* C13: when do_request is answered 429 on its first and second attempts and a
\* success status on the third, it has sent exactly three requests and slept
\* exactly twice, each sleep min(suggested delay, 30) seconds and so at most 30,
\* and it returns the third response parsed (the success marker for a 204).
C13_RateLimitRetry ==
    TwiceLimitedThenSuccess =>
        /\ http_requests = 3
        /\ Len(sleeps) = 2
        /\ \A i \in 1 .. 2 :
              /\ sleeps[i] = Min(SuggestedDelay(responses[i].retry_after), 30)
              /\ sleeps[i] <= 30
        /\ (responses[3].status = 200 /\ responses[3].body # "text")
              => result = Returns(responses[3].body)
        /\ responses[3].status = 204 => result = Returns(SUCCESS_MARKER)

C13_Witness ==
    /\ TwiceLimitedThenSuccess
    /\ responses[1].retry_after = Some("45") /\ responses[2].retry_after = None
    /\ sleeps = <<30, 5>>
    /\ responses[3].status = 200 /\ result = Returns("object")
    /\ tool_result.kind = "return"

\* C14: do_request ends within three HTTP requests: a 429 on the first or the
\* second attempt always leads to a sleep and then to another attempt, a 429 on
\* the third attempt raises the rate-limit error without sleeping, no fourth
\* request is sent, and every call ends by returning a response value or by
\* raising, never by leaving the loop with no result.
C14_TerminatesWithinThree ==
    wrapper = "DigitalOceanConfig.do_request" =>
        /\ http_requests <= 3
        /\ (ev.op = "response" /\ ev.resp.status = 429 /\ ev.attempt < 2)
              => (rq_pc = "sleeping" /\ Len(sleeps) = Len(ev.pre_sleeps) + 1)
        /\ ev.op = "wake"
              => (rq_pc = "awaiting" /\ http_requests = ev.pre_requests + 1)
        /\ (ev.op = "response" /\ ev.resp.status = 429 /\ ev.attempt = 2)
              => /\ rq_pc = "done"
                 /\ result.kind = "raise"
                 /\ StartsWith(result.exc.msg, "Rate limited by DigitalOcean API")
                 /\ sleeps = ev.pre_sleeps
        /\ (rq_pc = "done" /\ http_requests > 0)
              => (result.kind \in {"return", "raise"} /\ result # Returns("None"))

C16_NoContentMarker ==
    (ev.op = "response" /\ ev.resp.status = 204) => result = Returns(SUCCESS_MARKER)

\* C17: every request wrapper retries a request answered 429 at least once,
\* after a capped sleep, before it reports failure.
C17_RetryOnRateLimit ==
    (/\ rq_pc = "done" /\ Len(responses) >= 1 /\ responses[1].status = 429
     /\ result.kind = "raise") =>
        /\ http_requests >= 2
        /\ Len(sleeps) >= 1
        /\ \A i \in 1 .. Len(sleeps) : sleeps[i] <= 30

\* C18: every tool catches every exception raised during its call and returns
\* a formatted error string: whether credential acquisition, the HTTP call or
\* the handling of the response fails, no tool raises.
C18_ToolsNeverRaise ==
    /\ tool_result.kind # "raise"
    /\ (rq_pc = "done" /\ result.kind = "raise")
          => (tool_result.kind = "return" /\ StartsWith(tool_result.value, "Error"))

\* `sub in s`
Contains(s, sub) ==
    \E i \in 1 .. (Len(s) - Len(sub) + 1) : SubSeq(s, i, i + Len(sub) - 1) = sub

\* C19: a tool called while the vendor's is_configured is false returns a
\* string containing "not configured" or "Error:" and makes no network call to
\* the vendor: no token-endpoint request and no API request.
C19_NotConfiguredNoNetwork ==
    (wrapper \in Wrappers /\ ~is_configured) =>
        /\ http_requests = 0
        /\ token_fetches = 0
        /\ ev.op = "tool_call"
              => /\ tool_result.kind = "return"
                 /\ \/ Contains(tool_result.value, "not configured")
                    \/ Contains(tool_result.value, "Error:")

-----------------------------------------------------------------------------
(* The secret resolver: claim C20 *)

\* the call just made met a failure: of the library, the client or the call,
\* a secret that does not exist, a payload that is not UTF-8
SecretCallFailed ==
    \/ ev.failure # "none"
    \/ ev.pre_store[ev.secret_id] = NoSecret
    \/ (ev.op = "get_secret_sync" /\ ~ev.pre_store[ev.secret_id].utf8)
    \/ (ev.op = "update_secret_sync" /\ ev.value = None)

\* C20: get_secret_sync never raises: any failure of the secret-store call
\* (missing library, client construction, timeout, missing secret, decode
\* error) gives None, and a call that meets none gives the secret; likewise
\* update_secret_sync never raises and reports a failure as False.
C20_SecretResolverNeverRaises ==
    /\ ev.op = "get_secret_sync" =>
          /\ ev.outcome.kind = "return"
          /\ SecretCallFailed => ev.outcome.value = None
          /\ ~SecretCallFailed => ev.outcome.value = Some(ev.pre_store[ev.secret_id].data)
          /\ secret_store = ev.pre_store
    /\ ev.op = "update_secret_sync" =>
          /\ ev.outcome.kind = "return"
          /\ ev.outcome.value = ~SecretCallFailed
          /\ ev.outcome.value = TRUE =>
                secret_store[ev.secret_id] = [data |-> ev.value.v, utf8 |-> TRUE]

C20_Witness ==
    /\ ev.op = "get_secret_sync" /\ ev.failure = "none"
    /\ ev.secret_id = "MCP_API_KEY"
    /\ ev.pre_store["MCP_API_KEY"] = [data |-> "v1", utf8 |-> FALSE]
    /\ ev.outcome = Returns(None)
    /\ secret_store["M365_REFRESH_TOKEN"] = [data |-> "v2", utf8 |-> TRUE]

-----------------------------------------------------------------------------
(* The credential holders: claims C21 and C22 *)

\* the step just taken worked the credential out: it asked the environment
\* or the secret store
Resolved ==
    /\ ev.op \in {"construct", "access"}
    /\ store_reads > ev.pre_store_reads \/ env_reads > ev.pre_env_reads

\* C21: whenever a credential is worked out and its environment variable is
\* non-empty, the value is the environment's and the secret store is not
\* asked; the secret store is asked only when the environment variable is empty.
C21_EnvironmentFirst ==
    Resolved =>
        /\ Truthy(cred_env) =>
              /\ ev.value = cred_env
              /\ store_reads = ev.pre_store_reads
        /\ store_reads > ev.pre_store_reads => ~Truthy(cred_env)

\* the credential was in the cache, non-empty, before the read just made
ReadOfCached == ev.op = "access" /\ Truthy(ev.pre_cred)

\* C22: a read of a credential that is already held, non-empty, asks neither
\* the secret store nor the environment, returns the value held and leaves
\* it held, whatever the secret store holds by then.
C22_CachedForLifetime ==
    ReadOfCached =>
        /\ store_reads = ev.pre_store_reads
        /\ env_reads = ev.pre_env_reads
        /\ ev.value = ev.pre_cred
        /\ _cred = ev.pre_cred

\* a lazily resolved credential fetched from the secret store is read again
\* after the secret got another non-empty value
C22_Witness ==
    /\ ReadOfCached
    /\ holder \in LazyHolders
    /\ Truthy(cred_store)
    /\ cred_store # ev.pre_cred
    /\ ev.pre_cred # cred_env

-----------------------------------------------------------------------------
(* aws_run_command: claims C23 and C30 *)

\* the call of aws_run_command just made got its session and started the process
CommandSpawned == ev.op = "aws_run_command" /\ ev.spawned

\* the requested timeout brought into [10, 300]
Clamped(t) == IF t < 10 THEN 10 ELSE IF t > 300 THEN 300 ELSE t

\* C23: whatever timeout_seconds is asked for, the wait applied to the process
\* is that value clamped to [10, 300]; the call never waits longer, and when
\* the process outlasts the wait the tool returns the timeout string that
\* names the wait applied.
C23_BoundedTimeout ==
    CommandSpawned =>
        /\ ev.wait = Clamped(ev.timeout_seconds)
        /\ ev.wait >= 10 /\ ev.wait <= 300
        /\ ev.waited <= ev.wait
        /\ now = ev.at + ev.waited
        /\ ev.duration > ev.wait =>
              /\ ev.waited = ev.wait
              /\ ev.tool_ret = "Error: Command timed out after "
                                   \o ToString(ev.wait) \o " seconds."

\* a call that asked for no time at all and whose process was cut off after
\* ten seconds
C23_Witness ==
    /\ CommandSpawned
    /\ ev.timeout_seconds <= 0
    /\ ev.duration > 10
    /\ ev.tool_ret = "Error: Command timed out after 10 seconds."

\* C30: when aws_run_command got the session of a non-home account, the
\* credentials of that session were, at that moment, valid for longer than
\* the wait applied to the process.
C30_CredentialsOutliveCommand ==
    (CommandSpawned /\ ev.account # "prod") =>
        /\ ev.expiry - ev.at > ev.wait
        /\ ev.wait <= 300

\* a cached session reused with ten minutes left, for a command allowed the
\* full 300 seconds, which it used up
C30_Witness ==
    /\ CommandSpawned
    /\ ev.account = "nonprod"
    /\ ev.account \in DOMAIN ev.pre_cache
    /\ ev.session = ev.pre_cache[ev.account].session
    /\ ev.expiry - ev.at <= 600
    /\ ev.wait = 300
    /\ ev.waited = 300

-----------------------------------------------------------------------------
(* The token-based credential managers under concurrency: claim C24 *)

\* the step just taken was a caller working through a token response, and it
\* put a new token into the cache
ResponseStored ==
    /\ ev.op \in {"return", "raise"}
    /\ ev.requests = 1
    /\ ev.op = "raise" => ev.why # "http"
    /\ _access_token # ev.pre_token

\* C24: however the callers of get_access_token interleave at the token
\* request, every call that returns gives a token the token endpoint issued,
\* and whenever a token response puts its token into the cache the cached
\* expiry is the one computed from that same response.
C24_TokenAndExpiryFromOneResponse ==
    /\ ev.op = "return" => ev.ret \in 1..tokens_issued
    /\ ResponseStored =>
          /\ _access_token = ev.ret
          /\ _token_expiry = ComputeExpiry(manager, ev.expires_in, now)

-----------------------------------------------------------------------------
(* do_paginated_request: claim C25 *)

\* the first page, from p on, whose response has no next link; max_pages
\* at the latest
RECURSIVE LastPage(_, _)
LastPage(l, p) ==
    IF p >= max_pages \/ ~Served(l, p).next THEN p ELSE LastPage(l, p + 1)

\* the items of the pages 1 to k, in page order
RECURSIVE ItemsUpTo(_, _)
ItemsUpTo(l, k) == IF k = 0 THEN <<>> ELSE ItemsUpTo(l, k - 1) \o Items(l, k)

\* C25: a call of do_paginated_request that returns has requested the pages
\* 1, 2, ... up to the first page without a next link (max_pages at the
\* latest), in that order, and returns the items of all those pages in page
\* order, whether or not the responses carry meta.total.
C25_CollectsAllPages ==
    (page_pc = "done" /\ page_result.kind = "return") =>
        /\ page_requests = [i \in 1..LastPage(listing, 1) |-> i]
        /\ page_result.value = ItemsUpTo(listing, LastPage(listing, 1))

-----------------------------------------------------------------------------
(* The refresh-token managers: claims C26 and C27 *)

\* the step just taken sent a token request
RequestSent == ev.op = "send"

\* C26: every token request of a refresh-token manager carries the refresh
\* token the token endpoint issued last to this manager, or the configured
\* one while none has been issued (refresh tokens are numbered in the order
\* of their issue, the configured one being 0).
C26_SendsLatestRefreshToken ==
    RequestSent => sent_refresh[ev.caller] = refresh_issued

\* the call that just returned changed the refresh token held in memory
RefreshTokenChanged ==
    /\ \/ ev.op = "return" /\ ev.requests = 1
       \/ ev.op = "m365_auth_complete"
    /\ _refresh_token # ev.pre_refresh

\* C27: once a get_access_token or m365_auth_complete call that changed the
\* refresh token in memory has returned, the secret M365_REFRESH_TOKEN in
\* the secret store is that same refresh token, also when the write to the
\* secret store can fail.
C27_RefreshTokenPersisted ==
    RefreshTokenChanged => stored_refresh = _refresh_token

-----------------------------------------------------------------------------
(* A failed token request: claim C28 *)

\* the cache of a manager and what it keeps in the secret store
CredentialCache ==
    <<_access_token, _token_expiry, _refresh_token, stored_refresh, store_writes>>

\* C28: a get_access_token call whose token request fails (transport error
\* or error status) raises to its caller, and neither sending the request
\* nor its failure changes the cached token, the cached expiry or the
\* refresh token, or writes to the secret store; the caller is then free to
\* call again, and that call, finding the cache as it was, sends a request again.
C28_FailedRefreshLeavesCache ==
    /\ [][(ev'.op = "send" \/ (ev'.op = "raise" /\ ev'.why = "http"))
             => UNCHANGED CredentialCache]_vars
    /\ [][(ev'.op = "raise" /\ ev'.why = "http")
             => (pc[ev'.caller] = "awaiting" /\ pc'[ev'.caller] = "idle")]_vars
    /\ [](ev.op = "send" => ~CacheValid(ev.pre_token, ev.pre_expiry, now))

\* a request was sent again after every earlier request had failed, with a
\* token of an earlier refresh still in the cache, expired
C28_Witness ==
    /\ ev.op = "send"
    /\ token_requests > tokens_issued + 1
    /\ \A c \in Callers : c # ev.caller => pc[c] = "idle"
    /\ _access_token # 0
    /\ _access_token = ev.pre_token

-----------------------------------------------------------------------------
(* The AWS session cache: claim C29 *)

\* the get_session call just made
SessionCalled == ev.op = "get_session"

\* C29: a get_session call for an account changes at most the cache entry of
\* that account; a call that raises changes none; and the cache only ever
\* holds entries for nonprod and admin, each only with a role ARN configured.
C29_SessionCacheFrame ==
    /\ SessionCalled =>
          /\ DOMAIN ev.pre_cache \subseteq DOMAIN _session_cache
          /\ \A a \in DOMAIN ev.pre_cache :
                a # ev.account => _session_cache[a] = ev.pre_cache[a]
          /\ \A a \in DOMAIN _session_cache \ DOMAIN ev.pre_cache : a = ev.account
          /\ ev.outcome = "raise" => _session_cache = ev.pre_cache
    /\ DOMAIN _session_cache \subseteq {"nonprod", "admin"}
    /\ "nonprod" \in DOMAIN _session_cache => role_arn_nonprod # ""
    /\ "admin" \in DOMAIN _session_cache => role_arn_admin # ""

\* a session for admin was cached while nonprod's entry stayed as it was
C29_Witness ==
    /\ SessionCalled
    /\ ev.account = "admin"
    /\ ev.outcome = "return"
    /\ "nonprod" \in DOMAIN ev.pre_cache
    /\ _session_cache # ev.pre_cache
    /\ _session_cache["nonprod"] = ev.pre_cache["nonprod"]

====
